---------------------------- MODULE Spec2Model ----------------------------
(***************************************************************************)
(* Model of the hot-work permit automation (aplatquente):                  *)
(*   quent2_plano.py          text normalisation, hazard classifier, the   *)
(*                            four table builders, plan generation         *)
(*   quent3_preenchimento.py  Questionario PT, EPI adicional and APN-1    *)
(*                            processors                                   *)
(*   quent4_epi.py            EPI tab processor                            *)
(*   aplatquente.py           main, processar_etapa and the order of the   *)
(*                            forms                                        *)
(*                                                                         *)
(* Text is a sequence of characters.  A character is a one-letter string   *)
(* for ASCII and the string "U+XXXX" for any other code point, so the      *)
(* module text stays ASCII.  Item names and question texts that are only   *)
(* used as table keys are written as plain strings without diacritics,     *)
(* with the acute accent U+00B4 of "EPI's" written as a circumflex.        *)
(***************************************************************************)
EXTENDS Integers, Sequences, FiniteSets, TLC

VARIABLES
    \* ---- quent2_plano: module-level tables and the plan of the current job
    EPI_RADIOS_BASE,    \* dict (code, text) -> answer, module global
    EPIS_CAT_BASE,      \* dict category -> set of items, module global
    QPT_BASE,           \* dict (code, text) -> answer, module global
    descricao,          \* description text of the current job
    caracteristicas,    \* characteristics text of the current job
    idx,                \* number of the current stage in the run (1-based)
    etapa,              \* "inicio", "coletada" (texts read), "planejada" (plan generated)
    plano,              \* plan generated for the current job
    \* ---- quent3_preenchimento: QuestionarioPTProcessor
    rows,               \* rows of the Questionario PT tab, in document order
    qpt_plano,          \* the plan given to preencher: entries in dict order
    question_map,       \* self.question_map
    pos,                \* plan entries consumed by the loop of _processar_questoes
    total_processadas,  \* local of _processar_questoes
    sucessos,           \* local of _processar_questoes
    pcQ,                \* "parado", "inicio", "mapeado", "resolvida", "retornou", "excecao"
    tentativas,         \* per plan entry, calls of _processar_questao_individual
    aplicadas,          \* plan entries whose radio ended selected
    marcado,            \* per row, the option span selected (0: none)
    ultimo,             \* outcome of the last _processar_questao_individual
    retorno,            \* what preencher returned
    \* ---- _texto_label_corresponde on one label and one target
    rotulo_texto,       \* the label text
    rotulo_alvo,        \* the target answer
    rotulo_corresponde, \* "?" before the call, then "sim" or "nao"
    \* ---- quent3_preenchimento: APN1Processor
    apn1_rows,          \* rows of the APN-1 tab, in document order
    apn1_contexto,      \* local contexto of preencher: the normalized job text
    apn1_perguntas,     \* local perguntas of preencher: the questions collected
    apn1_pos,           \* questions consumed by the loop of _processar_perguntas
    apn1_respostas,     \* per question processed, the answer determined
    apn1_sucessos,      \* local sucessos of _processar_perguntas
    apn1_falhas,        \* local falhas of _processar_perguntas
    pcA,                \* "parado", "inicio", "processando", "retornou"
    \* ---- quent4_epi: EPIProcessor
    epis_cat_plano,     \* the plan given to processar: category -> set of items
    epi_pos,            \* categories consumed by the loop of processar
    epi_info,           \* local info of _processar_categoria
    epi_ultimo,         \* outcome of the last _processar_categoria that compared
    pcE,                \* "parado", "inicio", "coletada", "retornou"
    \* ---- normalizar_texto and normalizar_string applied to one text and again
    \* ---- to their own result
    norm_entrada,       \* the text given to both functions
    norm_texto,         \* results of normalizar_texto: of the text, then of the result
    norm_string,        \* results of normalizar_string: of the text, then of the result
    \* ---- quent3_preenchimento.EPIAdicionalProcessor (one call of preencher)
    epiad_plano,        \* epi_radios_plano: the EPI-radio table of the plan
    epiad_rows,         \* the questao_ rows of the EPI container, in document order
    mapa_respostas,     \* the dictionary of _extrair_mapa_respostas, as the sequence of its items
    epiad_pos,          \* rows processed so far
    epiad_respostas,    \* per processed row: the question read, its expected answer, the label clicked
    pcD,                \* "parado", "inicio", "processando", "retornou"
    \* ---- extrair_digitos_codigo applied to one code label and again to its result
    cod_entrada,        \* the code label given to the function
    cod_saida,          \* results: of the label, then of the result
    \* ---- aplatquente.main: one run over the stage numbers of the command line
    args_valor,         \* args.valor: the stage numbers, in the order given
    run_idx,            \* idx of the loop of main (1-based), 0 before the first stage
    pcM,                \* position in main / processar_etapa
    tipo_trabalho,      \* text of the work type read for the current stage
    form_pos,           \* forms attempted so far in the current stage
    form_erros,         \* forms of the current stage whose filling raised
    historico,          \* what the run did so far, in order
    navegador,          \* "aberto" or "fechado" (driver.quit was called)
    excecao             \* an exception is leaving main

planVars == <<EPI_RADIOS_BASE, EPIS_CAT_BASE, QPT_BASE, descricao, caracteristicas, idx, etapa, plano>>

qptVars == <<rows, qpt_plano, question_map, pos, total_processadas, sucessos, pcQ,
             tentativas, aplicadas, marcado, ultimo, retorno>>

rotuloVars == <<rotulo_texto, rotulo_alvo, rotulo_corresponde>>

apn1Vars == <<apn1_rows, apn1_contexto, apn1_perguntas, apn1_pos, apn1_respostas, apn1_sucessos,
              apn1_falhas, pcA>>

epiVars == <<epis_cat_plano, epi_pos, epi_info, epi_ultimo, pcE>>

normVars == <<norm_entrada, norm_texto, norm_string>>

epiAdVars == <<epiad_plano, epiad_rows, mapa_respostas, epiad_pos, epiad_respostas, pcD>>

codVars == <<cod_entrada, cod_saida>>

runVars == <<args_valor, run_idx, pcM, tipo_trabalho, form_pos, form_erros, historico,
             navegador, excecao>>

vars == <<planVars, qptVars, rotuloVars, apn1Vars, epiVars, normVars, epiAdVars, codVars, runVars>>

---------------------------------------------------------------------------
(* Bounds of the model *)

\* longest code label, in characters
MaxCodigo == 4

\* longest job description, in vocabulary phrases
MaxFrases == 2

\* stages processed in one run
MaxEtapas == 3

\* flags true at the same time in the walk over contexts
MaxFlagsLigadas == 4

\* rows of the Questionario PT form
MaxLinhas == 2

\* entries of the plan given to the Questionario PT processor
MaxEntradas == 2

\* rows of the APN-1 form
MaxPerguntas == 2

\* rows of one category table of the EPI tab
MaxObservados == 2

\* length of the texts given to the normalization functions
MaxTexto == 3

---------------------------------------------------------------------------
(* Characters and strings *)

\* a function on 1..n as a tuple
Tupla(f) == SelectSeq(f, LAMBDA c : TRUE)

\* the characters of an ASCII literal
Chars(s) == Tupla([i \in 1..Len(s) |-> SubSeq(s, i, i)])

RECURSIVE Concat(_)
\* "".join(ss), by halves
Concat(ss) ==
    IF Len(ss) = 0 THEN <<>>
    ELSE IF Len(ss) = 1 THEN ss[1]
    ELSE LET m == Len(ss) \div 2
         IN  Concat(SubSeq(ss, 1, m)) \o Concat(SubSeq(ss, m + 1, Len(ss)))

\* Python's  needle in hay  for strings
Contains(needle, hay) ==
    \E i \in 1..(Len(hay) - Len(needle) + 1) :
        SubSeq(hay, i, i + Len(needle) - 1) = needle

Minusculas == Chars("abcdefghijklmnopqrstuvwxyz")
Maiusculas == Chars("ABCDEFGHIJKLMNOPQRSTUVWXYZ")
Digitos    == Chars("0123456789")

IndiceDe(c, s) == CHOOSE i \in 1..Len(s) : s[i] = c
EstaEm(c, s)   == \E i \in 1..Len(s) : s[i] = c

\* unicodedata.normalize("NFD", ch) for one character: canonical decomposition
\*   U+00E3 a-tilde, U+00C3 A-tilde, U+00E7 c-cedilla, U+00C7 C-cedilla,
\*   U+00E1 a-acute, U+00C1 A-acute, U+00E9 e-acute, U+00C9 E-acute
NFD_char(c) ==
    CASE c = "U+00E3" -> <<"a", "U+0303">>
      [] c = "U+00C3" -> <<"A", "U+0303">>
      [] c = "U+00E7" -> <<"c", "U+0327">>
      [] c = "U+00C7" -> <<"C", "U+0327">>
      [] c = "U+00E1" -> <<"a", "U+0301">>
      [] c = "U+00C1" -> <<"A", "U+0301">>
      [] c = "U+00E9" -> <<"e", "U+0301">>
      [] c = "U+00C9" -> <<"E", "U+0301">>
      [] c = "U+00E2" -> <<"a", "U+0302">>
      [] c = "U+00C2" -> <<"A", "U+0302">>
      [] OTHER -> <<c>>

\* unicodedata.combining(ch): canonical combining class
\*   U+0303 tilde 230, U+0301 acute 230, U+0302 circumflex 230, U+0327 cedilla 202,
\*   U+1B44 BALINESE ADEG ADEG 9, U+302E HANGUL SINGLE DOT TONE MARK 224,
\*   U+034F COMBINING GRAPHEME JOINER 0
combining(c) ==
    CASE c \in {"U+0303", "U+0301", "U+0302"} -> 230
      [] c = "U+0327" -> 202
      [] c = "U+1B44" -> 9
      [] c = "U+302E" -> 224
      [] OTHER -> 0

\* positions where a mark follows a mark of a higher combining class
ForaDeOrdem(s) ==
    {i \in 1..(Len(s) - 1) : combining(s[i + 1]) > 0 /\ combining(s[i]) > combining(s[i + 1])}

RECURSIVE ordem_canonica(_)
\* the canonical ordering of NFD: within a run of marks (combining class not 0)
\* the marks are sorted by class, marks of the same class keeping their order
ordem_canonica(s) ==
    IF ForaDeOrdem(s) = {} THEN s
    ELSE LET i == CHOOSE j \in ForaDeOrdem(s) : TRUE
         IN  ordem_canonica([s EXCEPT ![i] = s[i + 1], ![i + 1] = s[i]])

\* unicodedata.normalize("NFD", s): decomposition, then canonical ordering
NFD(s) == ordem_canonica(Concat([i \in 1..Len(s) |-> NFD_char(s[i])]))

\* unicodedata.category(ch) = 'Mn'  (U+1B44 and U+302E are Mc, U+034F is Mn)
categoria_Mn(c) == c \in {"U+0303", "U+0301", "U+0302", "U+0327", "U+034F"}

\* str.upper() for one character (U+00DF sharp s upper-cases to "SS")
upper_char(c) ==
    IF EstaEm(c, Minusculas) THEN <<Maiusculas[IndiceDe(c, Minusculas)]>>
    ELSE CASE c = "U+00E3" -> <<"U+00C3">>
           [] c = "U+00E7" -> <<"U+00C7">>
           [] c = "U+00E1" -> <<"U+00C1">>
           [] c = "U+00E9" -> <<"U+00C9">>
           [] c = "U+00E2" -> <<"U+00C2">>
           [] c = "U+00DF" -> <<"S", "S">>
           [] OTHER -> <<c>>

upper(s) == Concat([i \in 1..Len(s) |-> upper_char(s[i])])

\* the whitespace of re's \s and of str.strip(): space, tab, newline, no-break space
isspace(c) == c \in {" ", "U+0009", "U+000A", "U+00A0"}

RECURSIVE lstrip(_)
lstrip(s) == IF s # <<>> /\ isspace(Head(s)) THEN lstrip(Tail(s)) ELSE s

RECURSIVE rstrip(_)
rstrip(s) ==
    IF s # <<>> /\ isspace(s[Len(s)]) THEN rstrip(SubSeq(s, 1, Len(s) - 1)) ELSE s

strip(s) == rstrip(lstrip(s))

NaoVazio(c) == c # ""

\* re.sub(r"\s+", " ", s): the first character of a run of whitespace becomes one
\* space and the others of the run are dropped
sub_espacos(s) ==
    SelectSeq([i \in 1..Len(s) |->
                  IF ~isspace(s[i]) THEN s[i]
                  ELSE IF i > 1 /\ isspace(s[i - 1]) THEN "" ELSE " "],
              NaoVazio)

NaoCombinante(c) == combining(c) = 0
NaoMn(c) == ~categoria_Mn(c)

\* quent2_plano.normalizar_texto
normalizar_texto(s) ==
    IF s = <<"None">> \/ s = <<>> THEN <<>>
    ELSE strip(sub_espacos(upper(SelectSeq(NFD(s), NaoCombinante))))

\* quent3_preenchimento.normalizar_string
normalizar_string(texto) ==
    IF texto = <<"None">> \/ texto = <<>> THEN <<>>
    ELSE strip(sub_espacos(upper(SelectSeq(NFD(texto), NaoMn))))

\* re's \w on the characters of the model: letters, digits, underscore
palavra_char(c) ==
    \/ EstaEm(c, Minusculas) \/ EstaEm(c, Maiusculas) \/ EstaEm(c, Digitos)
    \/ c \in {"_", "U+00E3", "U+00C3", "U+00E7", "U+00C7", "U+00E1", "U+00C1",
            "U+00E9", "U+00C9", "U+00E2", "U+00C2", "U+00DF"}

\* the word search without its boundaries: W in texto
re_search_palavra_sem_fronteira(w, texto) ==
    \E i \in 1..(Len(texto) - Len(w) + 1) : SubSeq(texto, i, i + Len(w) - 1) = w

\* re.search(r"\bW\b", texto) for a word W made of \w characters
re_search_palavra(w, texto) ==
    \E i \in 1..(Len(texto) - Len(w) + 1) :
        /\ SubSeq(texto, i, i + Len(w) - 1) = w
        /\ (i = 1 \/ ~palavra_char(texto[i - 1]))
        /\ (i + Len(w) - 1 = Len(texto) \/ ~palavra_char(texto[i + Len(w)]))

\* all(frase in texto for frase in frases)
any_in_all(frases, texto) == \A f \in frases : Contains(Chars(f), texto)

\* any(frase in texto for frase in frases)
any_in(frases, texto) == \E f \in frases : Contains(Chars(f), texto)

---------------------------------------------------------------------------
(* quent2_plano: hazard classifier *)

\* the absent text (Python's None)
None == <<"None">>

Flags == {"tem_espaco_confinado", "tem_altura", "tem_acesso_cordas", "tem_sobre_o_mar",
          "tem_chama", "tem_oxicorte", "tem_solda", "tem_co2", "tem_trat_mec",
          "tem_agulheiro", "tem_lix_pneum", "tem_lixadeira", "tem_pneumatico",
          "tem_eletrico", "tem_corte", "tem_serra_sabre", "tem_pressurizado",
          "tem_hidrojato", "tem_partes_moveis"}

\* descricao or ""
ou_vazio(s) == IF s = None THEN <<>> ELSE s

\* the classifier with the water-jetting test written as
\* ("HIDROJATO" in texto) or "HIDROJATEAMENTO": the second operand is a
\* non-empty string, which is true whatever the text holds
montar_contexto_from_textos_or_truthy(d, c) ==
    LET desc  == normalizar_texto(ou_vazio(d))
        carac == normalizar_texto(ou_vazio(c))
        texto == strip(desc \o <<" ">> \o carac)
    IN  [ texto_full |-> texto,
          tem_espaco_confinado |->
              \/ any_in({"ESPACO CONFINADO", "INTERIOR DE ESPACO", "ESPACO CONFINADO -",
                         "DENTRO DE", "INTERIOR DO"}, texto)
              \/ Contains(Chars("ESPACO CONFINADO"), texto),
          tem_altura |->
              \/ any_in({"ALTURA", "ACESSO POR CORDAS", "CORDAS", "NR-35",
                         "TRABALHO EM ALTURA"}, texto)
              \/ Contains(Chars("ALTURA"), texto),
          tem_acesso_cordas |-> Contains(Chars("ACESSO POR CORDAS"), texto),
          tem_sobre_o_mar   |-> Contains(Chars("SOBRE O MAR"), texto),
          tem_chama         |-> any_in({"CHAMA ABERTA", "ESMERILHADEIRA", "OXICORTE", "SOLDA"}, texto),
          tem_oxicorte      |-> Contains(Chars("OXICORTE"), texto),
          tem_solda         |-> re_search_palavra(Chars("SOLDA"), texto),
          tem_co2           |-> any_in({"AMBIENTES PROTEGIDOS POR CO2", "PROTEGIDO POR SISTEMA DE CO2",
                                        "PROTEGIDOS POR CO2", "PROTEGIDO POR CO2"}, texto),
          tem_trat_mec      |-> Contains(Chars("TRATAMENTO MECANICO"), texto),
          tem_agulheiro     |-> Contains(Chars("AGULHEIRO"), texto),
          tem_lix_pneum     |-> Contains(Chars("LIXADEIRA PNEUMATIC"), texto),
          tem_lixadeira     |-> Contains(Chars("LIXADEIRA"), texto),
          tem_pneumatico    |-> Contains(Chars("PNEUMATIC"), texto),
          tem_eletrico      |-> Contains(Chars("ELETRIC"), texto),
          tem_corte         |-> re_search_palavra(Chars("CORTE"), texto),
          tem_serra_sabre   |-> Contains(Chars("SERRA SABRE"), texto),
          tem_pressurizado  |-> Contains(Chars("PRESSURIZADO"), texto),
          tem_hidrojato     |-> Contains(Chars("HIDROJATO"), texto) \/ Chars("HIDROJATEAMENTO") # <<>>,
          tem_partes_moveis |-> Contains(Chars("PARTES MOVEIS"), texto) ]

montar_contexto_from_textos(d, c) ==
    LET desc  == normalizar_texto(ou_vazio(d))
        carac == normalizar_texto(ou_vazio(c))
        texto == strip(desc \o <<" ">> \o carac)
    IN  [ texto_full |-> texto,
          tem_espaco_confinado |->
              \/ any_in({"ESPACO CONFINADO", "INTERIOR DE ESPACO", "ESPACO CONFINADO -",
                         "DENTRO DE", "INTERIOR DO"}, texto)
              \/ Contains(Chars("ESPACO CONFINADO"), texto),
          tem_altura |->
              \/ any_in({"ALTURA", "ACESSO POR CORDAS", "CORDAS", "NR-35",
                         "TRABALHO EM ALTURA"}, texto)
              \/ Contains(Chars("ALTURA"), texto),
          tem_acesso_cordas |-> Contains(Chars("ACESSO POR CORDAS"), texto),
          tem_sobre_o_mar   |-> Contains(Chars("SOBRE O MAR"), texto),
          tem_chama         |-> any_in({"CHAMA ABERTA", "ESMERILHADEIRA", "OXICORTE", "SOLDA"}, texto),
          tem_oxicorte      |-> Contains(Chars("OXICORTE"), texto),
          tem_solda         |-> re_search_palavra(Chars("SOLDA"), texto),
          tem_co2           |-> any_in({"AMBIENTES PROTEGIDOS POR CO2", "PROTEGIDO POR SISTEMA DE CO2",
                                        "PROTEGIDOS POR CO2", "PROTEGIDO POR CO2"}, texto),
          tem_trat_mec      |-> Contains(Chars("TRATAMENTO MECANICO"), texto),
          tem_agulheiro     |-> Contains(Chars("AGULHEIRO"), texto),
          tem_lix_pneum     |-> Contains(Chars("LIXADEIRA PNEUMATIC"), texto),
          tem_lixadeira     |-> Contains(Chars("LIXADEIRA"), texto),
          tem_pneumatico    |-> Contains(Chars("PNEUMATIC"), texto),
          tem_eletrico      |-> Contains(Chars("ELETRIC"), texto),
          tem_corte         |-> re_search_palavra(Chars("CORTE"), texto),
          tem_serra_sabre   |-> Contains(Chars("SERRA SABRE"), texto),
          tem_pressurizado  |-> Contains(Chars("PRESSURIZADO"), texto),
          tem_hidrojato     |-> Contains(Chars("HIDROJATO"), texto) \/ Contains(Chars("HIDROJATEAMENTO"), texto),
          tem_partes_moveis |-> Contains(Chars("PARTES MOVEIS"), texto) ]

---------------------------------------------------------------------------
(* quent2_plano: answers, keys and base tables *)

\* the three answers: "Sim", "Nao" (with a-tilde U+00E3), "NA"
SIM == Chars("Sim")
NAO == <<"N", "U+00E3", "o">>
NA  == Chars("NA")
Respostas == {SIM, NAO, NA}

EPI_Q001_CINTO == <<"Q001", "Cinto de Seguranca">>
EPI_Q002_VENT == <<"Q002", "Ventilacao Forcada">>
EPI_Q003_COLETE == <<"Q003", "Colete Salva-vidas">>
EPI_Q004_ILUM == <<"Q004", "Iluminacao p/ uso em area classificada (tipo Ex)">>
EPI_Q005_DPA == <<"Q005", "Dupla Protecao Auricular">>
EPI_Q006_PROT_FACIAL == <<"Q006", "Protetor Facial">>

\* initial contents of EPI_RADIOS_BASE
EPI_RADIOS_BASE_literal ==
    (EPI_Q001_CINTO :> NAO) @@ (EPI_Q002_VENT :> NAO) @@ (EPI_Q003_COLETE :> NAO) @@
    (EPI_Q004_ILUM :> NAO) @@ (EPI_Q005_DPA :> SIM) @@ (EPI_Q006_PROT_FACIAL :> SIM)

\* initial contents of EPIS_CAT_BASE
EPIS_CAT_BASE_literal ==
    ("Luvas" :> {"LUVA DE PROTECAO CONTRA IMPACTOS MODELO II (3, 4, 3, 3, 'C', 'P')"}) @@
    ("Protecao Respiratoria" :> {"NAO APLICAVEL"}) @@
    ("Vestimentas" :> {"DUPLA PROTECAO AUDITIVA",
                       "EPI^s OBRIGATORIOS (CAPACETE, BOTA, PROT. AURIC. E UNIFORME)"}) @@
    ("Oculos" :> {"OCULOS AMPLA VISAO", "PROTETOR FACIAL"})

QPT_Q001_MUDANCA == <<"Q001", "O trabalho a ser realizado e caracterizado como uma mudanca?">>
QPT_Q001_PERMANENCIA == <<"Q001", "Permanencia do Operador no Local de Trabalho?">>
QPT_Q002_ACOMP == <<"Q002", "Acompanhamento Periodico? (Em caso de Acompanhamento Periodico, efetuar verificacoes de ____em___horas)">>
QPT_Q002_MANOBRAS == <<"Q002", "As manobras, bloqueios e isolamentos foram executados conforme o plano de isolamento?">>
QPT_Q003_DRENADO == <<"Q003", "O equipamento foi drenado e/ou lavado e/ou limpo e/ou ventilado ?">>
QPT_Q004_SINALIZADO == <<"Q004", "O equipamento esta corretamente sinalizado com etiquetas de advertencia ?">>
QPT_Q005_INSPECOES == <<"Q005", "Foram realizadas inspecoes previas nos equipamentos eletricos (luminarias, quadros, paineis, conexoes, cabos, etc) e os cabos eletricos estao supensos?">>
QPT_Q006_COMB_INC == <<"Q006", "Caso os sistemas e equipamentos de combate a incendio do local onde sera executado o trabalho nao estejam em condicoes normais de operacao, foram definidas salvaguardas?">>
QPT_Q007_MANG_AR == <<"Q007", "As mangueiras de ar comprimido possuem engates rapidos compativeis e os mesmos estao travados">>
QPT_Q008_LOCAL_ISOLADO == <<"Q008", "O local foi isolado, sinalizado e o pessoal desnecessario  afastado ?">>
QPT_Q009_FAGULHAS == <<"Q009", "Foi providenciada a contencao de fagulhas com mantas e materiais adequados?">>
QPT_Q010_ACOPLADO == <<"Q010", "Caso o equipamento esteja acoplado a equipamento eletrico (ex: motor eletrico),  foram tomadas precaucoes quanto a energizacao acidental do equipamento ?">>
QPT_Q011_TAMPONAMENTOS == <<"Q011", "Foi providenciado Tamponamentos de drenos, ralos, vents e outras aberturas proximas ao local do trabalho?">>
QPT_Q012_RISCO_PP == <<"Q012", "A execucao deste trabalho pode causar Risco de Perda de Producao?">>
QPT_Q013_INIBIR_SENSORES == <<"Q013", "Caso necessario inibir sensores do sistema de deteccao de fogo e gas, foram definidas salvaguardas para suprir a inibicao?">>
QPT_Q014_OBSERVADOR == <<"Q014", "O observador foi instruido quanto a utilizacao dos equipamentos de combate a incendio?">>

\* initial contents of QPT_BASE
QPT_BASE_literal ==
    (QPT_Q001_MUDANCA :> NAO) @@ (QPT_Q001_PERMANENCIA :> NAO) @@ (QPT_Q002_ACOMP :> SIM) @@
    (QPT_Q002_MANOBRAS :> NA) @@ (QPT_Q003_DRENADO :> NA) @@ (QPT_Q004_SINALIZADO :> NA) @@
    (QPT_Q005_INSPECOES :> NA) @@ (QPT_Q006_COMB_INC :> NA) @@ (QPT_Q007_MANG_AR :> NA) @@
    (QPT_Q008_LOCAL_ISOLADO :> SIM) @@ (QPT_Q009_FAGULHAS :> NA) @@ (QPT_Q010_ACOPLADO :> NA) @@
    (QPT_Q011_TAMPONAMENTOS :> NA) @@ (QPT_Q012_RISCO_PP :> NAO) @@
    (QPT_Q013_INIBIR_SENSORES :> NA) @@ (QPT_Q014_OBSERVADOR :> NA)

\* base[k] = v on a dict (adds the key when absent)
atribuir(base, k, v) == (k :> v) @@ base

\* base.setdefault(cat, set()).update(itens)
setdefault_update(base, cat, itens) ==
    IF cat \in DOMAIN base THEN (cat :> (base[cat] \cup itens)) @@ base
    ELSE (cat :> itens) @@ base

---------------------------------------------------------------------------
(* quent2_plano: the four table builders.  A builder of a module-level      *)
(* table returns the table it built (ret) and the contents of the module    *)
(* table after the call: the builders work on a copy, so it is unchanged.   *)

\* the eye-hazard composite without the grinder flag
hazard_olhos_radios_sem_lixadeira(ctx) ==
    \/ ctx.tem_chama \/ ctx.tem_trat_mec \/ ctx.tem_agulheiro \/ ctx.tem_lix_pneum
    \/ ctx.tem_corte \/ ctx.tem_serra_sabre

\* lines 368-376
hazard_olhos_radios(ctx) ==
    \/ ctx.tem_chama \/ ctx.tem_trat_mec \/ ctx.tem_agulheiro \/ ctx.tem_lix_pneum
    \/ ctx.tem_lixadeira \/ ctx.tem_corte \/ ctx.tem_serra_sabre

\* regras_epi_radios without the else branch of line 377
regras_epi_radios_sem_else(ctx, base) ==
    LET b1 == IF ctx.tem_altura \/ ctx.tem_acesso_cordas \/ ctx.tem_sobre_o_mar
              THEN atribuir(base, EPI_Q001_CINTO, SIM) ELSE base
        b2 == IF ctx.tem_sobre_o_mar THEN atribuir(b1, EPI_Q003_COLETE, SIM) ELSE b1
    IN  IF hazard_olhos_radios(ctx) THEN atribuir(b2, EPI_Q006_PROT_FACIAL, SIM) ELSE b2

\* lines 362-377 applied to the copy  base
regras_epi_radios(ctx, base) ==
    LET b1 == IF ctx.tem_altura \/ ctx.tem_acesso_cordas \/ ctx.tem_sobre_o_mar
              THEN atribuir(base, EPI_Q001_CINTO, SIM) ELSE base
        b2 == IF ctx.tem_sobre_o_mar THEN atribuir(b1, EPI_Q003_COLETE, SIM) ELSE b1
    IN  atribuir(b2, EPI_Q006_PROT_FACIAL, IF hazard_olhos_radios(ctx) THEN SIM ELSE NAO)

montar_base_epi_radios(ctx) ==
    [ ret |-> regras_epi_radios(ctx, EPI_RADIOS_BASE),
      EPI_RADIOS_BASE |-> EPI_RADIOS_BASE ]

\* the eye-hazard composite of the equipment builder without the sabre saw
hazard_olhos_cat_sem_serra(ctx) ==
    \/ ctx.tem_chama \/ ctx.tem_trat_mec \/ ctx.tem_agulheiro \/ ctx.tem_lix_pneum
    \/ ctx.tem_lixadeira \/ ctx.tem_corte

\* lines 385-393
hazard_olhos_cat(ctx) ==
    \/ ctx.tem_chama \/ ctx.tem_trat_mec \/ ctx.tem_agulheiro \/ ctx.tem_lix_pneum
    \/ ctx.tem_lixadeira \/ ctx.tem_corte \/ ctx.tem_serra_sabre

\* regra_sem_hazard_olhos adding the impact glasses instead of replacing the set
regra_sem_hazard_olhos_update(ctx, base) ==
    IF ~hazard_olhos_cat(ctx)
    THEN setdefault_update(base, "Oculos", {"OCULOS SEGURANCA CONTRA IMPACTO"})
    ELSE base

regra_sem_hazard_olhos(ctx, base) ==
    IF ~hazard_olhos_cat(ctx)
    THEN atribuir(base, "Oculos", {"OCULOS SEGURANCA CONTRA IMPACTO"})
    ELSE base

regra_chama(ctx, base) ==
    IF ctx.tem_chama
    THEN LET b1 == setdefault_update(base, "Luvas", {"LUVA ARAMIDA", "LUVA DE RASPA"})
             b2 == setdefault_update(b1, "Vestimentas",
                       {"BALACLAVA", "AVENTAL DE RASPA", "CAPUZ", "MANGA DE RASPA",
                        "PERNEIRA DE RASPA", "VESTIM. COMPLETA DE RASPA"})
             b3 == atribuir(b2, "Protecao Respiratoria", {"PECA SEMI-FACIAL FILTRANTE 2"})
         IN  setdefault_update(b3, "Oculos", {"MASCARA SOLDADOR"})
    ELSE base

regra_solda_oxicorte(ctx, base) ==
    LET b1 == IF ctx.tem_solda \/ ctx.tem_oxicorte
              THEN setdefault_update(base, "Oculos", {"LENTE DE ACORDO COM AMPERAGEM DA MAQUINA"})
              ELSE base
    IN  IF ctx.tem_oxicorte
        THEN setdefault_update(b1, "Oculos", {"OCULOS MACARIQUEIRO"})
        ELSE b1

regra_trat_mec(ctx, base) ==
    IF ctx.tem_trat_mec \/ ctx.tem_agulheiro \/ ctx.tem_lix_pneum
    THEN setdefault_update(
             atribuir(base, "Protecao Respiratoria", {"PECA SEMI-FACIAL FILTRANTE 2"}),
             "Luvas", {"LUVA ANTI-VIBRACAO"})
    ELSE base

ITENS_ALTURA ==
    {"BOTA CANO ALTO", "CAPACETE S/ABAS C/ CARNEIRA E PRESILHA DE QUEIXO EM Y",
     "CINTO DE SEG. TP PARA-QUEDISTA", "CINTO DE SEGURANCA PARA RESGATE",
     "DUPLO TALABARTE EM Y OU LINHA DE VIDA CONJUGADA TRAVA QUEDA",
     "MACACAO COM GOLA TIPO PADRE E BOLSOS FECHADOS"}

ITENS_SOBRE_O_MAR ==
    {"BOTA CANO ALTO", "CAPACETE S/ABAS C/ CARNEIRA E PRESILHA DE QUEIXO EM Y",
     "CINTO DE SEG. TP PARA-QUEDISTA", "CINTO DE SEGURANCA PARA RESGATE",
     "COLETE SALVA VIDAS RF (apenas para trabalhos a quente)", "COLETE SALVA-VIDAS",
     "DUPLO TALABARTE EM Y OU LINHA DE VIDA CONJUGADA TRAVA QUEDA",
     "MACACAO COM GOLA TIPO PADRE E BOLSOS FECHADOS"}

regra_altura(ctx, base) ==
    IF ctx.tem_altura \/ ctx.tem_acesso_cordas
    THEN setdefault_update(base, "Vestimentas", ITENS_ALTURA)
    ELSE base

\* regra_sobre_o_mar assigning the bundle instead of uniting it
regra_sobre_o_mar_atribui(ctx, base) ==
    IF ctx.tem_sobre_o_mar
    THEN atribuir(base, "Vestimentas", ITENS_SOBRE_O_MAR)
    ELSE base

regra_sobre_o_mar(ctx, base) ==
    IF ctx.tem_sobre_o_mar
    THEN setdefault_update(base, "Vestimentas", ITENS_SOBRE_O_MAR)
    ELSE base

\* lines 385-453 applied to the copy  base
regras_epis_cat(ctx, base) ==
    regra_sobre_o_mar(ctx,
      regra_altura(ctx,
        regra_trat_mec(ctx,
          regra_solda_oxicorte(ctx,
            regra_chama(ctx,
              regra_sem_hazard_olhos(ctx, base))))))

\* montar_base_epis_cat on dict(EPIS_CAT_BASE): the sets are shared with the module
\* table, so update/add reach it until the category is rebound by an assignment
montar_base_epis_cat_sem_copia(ctx) ==
    LET r == regras_epis_cat(ctx, EPIS_CAT_BASE)
    IN  [ ret |-> r,
          EPIS_CAT_BASE |->
              [cat \in DOMAIN EPIS_CAT_BASE |->
                  IF \/ cat \in {"Luvas", "Vestimentas"}
                     \/ (cat = "Oculos" /\ hazard_olhos_cat(ctx))
                  THEN r[cat] ELSE EPIS_CAT_BASE[cat]] ]

\* {cat: set(itens) for cat, itens in EPIS_CAT_BASE.items()}: fresh dict, fresh sets
montar_base_epis_cat(ctx) ==
    [ ret |-> regras_epis_cat(ctx, [cat \in DOMAIN EPIS_CAT_BASE |-> EPIS_CAT_BASE[cat]]),
      EPIS_CAT_BASE |-> EPIS_CAT_BASE ]

\* lines 461-494 applied to the copy  base
\* regras_qpt with the sensor-inhibition trigger written with "or"
regras_qpt_sensores_ou(ctx, base) ==
    LET b1 == atribuir(base, QPT_Q005_INSPECOES,
                       IF ctx.tem_chama \/ ctx.tem_eletrico THEN SIM ELSE NA)
        b2 == atribuir(b1, QPT_Q007_MANG_AR,
                       IF \/ ctx.tem_pneumatico \/ ctx.tem_trat_mec
                          \/ ctx.tem_agulheiro \/ ctx.tem_lix_pneum THEN SIM ELSE NA)
        b3 == atribuir(b2, QPT_Q009_FAGULHAS, IF ctx.tem_chama THEN SIM ELSE NA)
        b4 == atribuir(b3, QPT_Q011_TAMPONAMENTOS, IF ctx.tem_chama THEN SIM ELSE NA)
        b5 == atribuir(b4, QPT_Q013_INIBIR_SENSORES,
                       IF ctx.tem_co2 \/ ctx.tem_chama THEN SIM ELSE NA)
    IN  atribuir(b5, QPT_Q014_OBSERVADOR, IF ctx.tem_chama THEN SIM ELSE NA)

\* lines 461-494 applied to the copy  base
regras_qpt(ctx, base) ==
    LET b1 == atribuir(base, QPT_Q005_INSPECOES,
                       IF ctx.tem_chama \/ ctx.tem_eletrico THEN SIM ELSE NA)
        b2 == atribuir(b1, QPT_Q007_MANG_AR,
                       IF \/ ctx.tem_pneumatico \/ ctx.tem_trat_mec
                          \/ ctx.tem_agulheiro \/ ctx.tem_lix_pneum THEN SIM ELSE NA)
        b3 == atribuir(b2, QPT_Q009_FAGULHAS, IF ctx.tem_chama THEN SIM ELSE NA)
        b4 == atribuir(b3, QPT_Q011_TAMPONAMENTOS, IF ctx.tem_chama THEN SIM ELSE NA)
        b5 == atribuir(b4, QPT_Q013_INIBIR_SENSORES,
                       IF ctx.tem_co2 /\ ctx.tem_chama THEN SIM ELSE NA)
    IN  atribuir(b5, QPT_Q014_OBSERVADOR, IF ctx.tem_chama THEN SIM ELSE NA)

montar_base_qpt(ctx) ==
    [ ret |-> regras_qpt(ctx, QPT_BASE), QPT_BASE |-> QPT_BASE ]

\* f"Q{num:03d}" for num in range(1, 21)
CODIGOS_APN1 ==
    {"Q001", "Q002", "Q003", "Q004", "Q005", "Q006", "Q007", "Q008", "Q009", "Q010",
     "Q011", "Q012", "Q013", "Q014", "Q015", "Q016", "Q017", "Q018", "Q019", "Q020"}

\* regras_apn1 with Q007 triggered by height alone, not by rope access
regras_apn1_sem_cordas(ctx, base) ==
    LET b1 == IF ctx.tem_espaco_confinado THEN atribuir(base, "Q006", SIM) ELSE base
        b2 == IF ctx.tem_altura THEN atribuir(b1, "Q007", SIM) ELSE b1
        b3 == IF ctx.tem_sobre_o_mar THEN atribuir(b2, "Q008", SIM) ELSE b2
        b4 == IF ctx.tem_chama THEN atribuir(b3, "Q010", SIM) ELSE b3
        b5 == IF ctx.tem_co2 THEN atribuir(b4, "Q019", SIM) ELSE b4
        b6 == IF ctx.tem_pressurizado THEN atribuir(b5, "Q013", SIM) ELSE b5
        b7 == IF ctx.tem_hidrojato THEN atribuir(b6, "Q016", SIM) ELSE b6
    IN  IF ctx.tem_partes_moveis THEN atribuir(b7, "Q017", SIM) ELSE b7

\* lines 506-535 applied to  base
regras_apn1(ctx, base) ==
    LET b1 == IF ctx.tem_espaco_confinado THEN atribuir(base, "Q006", SIM) ELSE base
        b2 == IF ctx.tem_altura \/ ctx.tem_acesso_cordas THEN atribuir(b1, "Q007", SIM) ELSE b1
        b3 == IF ctx.tem_sobre_o_mar THEN atribuir(b2, "Q008", SIM) ELSE b2
        b4 == IF ctx.tem_chama THEN atribuir(b3, "Q010", SIM) ELSE b3
        b5 == IF ctx.tem_co2 THEN atribuir(b4, "Q019", SIM) ELSE b4
        b6 == IF ctx.tem_pressurizado THEN atribuir(b5, "Q013", SIM) ELSE b5
        b7 == IF ctx.tem_hidrojato THEN atribuir(b6, "Q016", SIM) ELSE b6
    IN  IF ctx.tem_partes_moveis THEN atribuir(b7, "Q017", SIM) ELSE b7

\* montar_base_apn1 with range(1, 20): Q020 is never created
montar_base_apn1_range_curto(ctx) ==
    regras_apn1(ctx, [q \in CODIGOS_APN1 \ {"Q020"} |-> NAO])

montar_base_apn1(ctx) == regras_apn1(ctx, [q \in CODIGOS_APN1 |-> NAO])

\* lines 548-561 for an already computed context: the plan, and the module
\* tables as the builders leave them
montar_plano(ctx) ==
    LET r1 == montar_base_epi_radios(ctx)
        r2 == montar_base_epis_cat(ctx)
        r3 == montar_base_qpt(ctx)
    IN  [ plano |-> [ contexto   |-> ctx,
                      epi_radios |-> r1.ret,
                      epis_cat   |-> r2.ret,
                      qpt        |-> r3.ret,
                      apn1       |-> montar_base_apn1(ctx) ],
          EPI_RADIOS_BASE |-> r1.EPI_RADIOS_BASE,
          EPIS_CAT_BASE   |-> r2.EPIS_CAT_BASE,
          QPT_BASE        |-> r3.QPT_BASE ]

gerar_plano_trabalho_quente(d, c) == montar_plano(montar_contexto_from_textos(d, c))

---------------------------------------------------------------------------
(* quent3_preenchimento: Questionario PT processor                          *)
(* A row of the form is a record  [tem_elementos, ordem, pergunta, opcoes]: *)
(* whether the .ordem and .pergunta elements exist, their texts, and the    *)
(* labels of the radio options in document order.                           *)

\* str.isdigit() on the characters of the model (U+00B2 superscript two is a digit)
isdigit(c) == EstaEm(c, Digitos) \/ c = "U+00B2"

RECURSIVE zfill(_, _)
\* str.zfill(n) for a text without sign
zfill(s, n) == IF Len(s) >= n THEN s ELSE zfill(<<"0">> \o s, n)

\* extrair_digitos_codigo without the zfill(3) of line 116
extrair_digitos_codigo_sem_zfill(codigo) ==
    IF codigo = <<>> THEN <<>>
    ELSE SelectSeq(codigo, isdigit)

\* lines 110-116
extrair_digitos_codigo(codigo) ==
    IF codigo = <<>> THEN <<>>
    ELSE LET digitos == SelectSeq(codigo, isdigit)
         IN  IF digitos # <<>> THEN zfill(digitos, 3) ELSE <<>>

\* "O trabalho a ser realizado e' caracterizado como uma mudanca?" with its accents
TEXTO_MUDANCA ==
    Chars("O trabalho a ser realizado ") \o <<"U+00E9">>
        \o Chars(" caracterizado como uma mudan") \o <<"U+00E7">> \o Chars("a?")

TEXTO_MUDANCA_QPT == normalizar_string(TEXTO_MUDANCA)

\* the result of a lookup that found nothing (Python's None)
SemInfo == [ok |-> FALSE]

\* _extrair_info_pergunta for the row at position i of the form
extrair_info_pergunta(row, i) ==
    IF ~row.tem_elementos THEN SemInfo
    ELSE LET cod_norm   == extrair_digitos_codigo(row.ordem)
             texto_norm == normalizar_string(row.pergunta)
         IN  IF texto_norm = <<>> THEN SemInfo
             ELSE [ ok |-> TRUE, row |-> i, ordem |-> strip(row.ordem),
                    texto |-> strip(row.pergunta),
                    cod_norm |-> cod_norm, texto_norm |-> texto_norm ]

InfoValida(info) == info.ok

\* the infos of the rows that yield a question, in document order
infos_das_linhas(linhas) ==
    SelectSeq([i \in 1..Len(linhas) |-> extrair_info_pergunta(linhas[i], i)], InfoValida)

Maximo(S) == CHOOSE x \in S : \A y \in S : y <= x
Minimo(S) == CHOOSE x \in S : \A y \in S : x <= y

\* _construir_mapa_perguntas with a by_code that keeps the first row of a pair
construir_mapa_perguntas_primeira(linhas) ==
    LET infos == infos_das_linhas(linhas)
        N == 1..Len(infos)
        chave(j) == <<infos[j].cod_norm, infos[j].texto_norm>>
    IN  [ by_code |-> [k \in {chave(j) : j \in N} |->
                          infos[Minimo({j \in N : chave(j) = k})]],
          by_text |-> [t \in {infos[j].texto_norm : j \in N} |->
                          SelectSeq(infos, LAMBDA x : x.texto_norm = t)] ]

\* _construir_mapa_perguntas: by_code keeps the last row of a (code, text) pair,
\* by_text keeps every row of a text in document order
construir_mapa_perguntas(linhas) ==
    LET infos == infos_das_linhas(linhas)
        N == 1..Len(infos)
        chave(j) == <<infos[j].cod_norm, infos[j].texto_norm>>
    IN  [ by_code |-> [k \in {chave(j) : j \in N} |->
                          infos[Maximo({j \in N : chave(j) = k})]],
          by_text |-> [t \in {infos[j].texto_norm : j \in N} |->
                          SelectSeq(infos, LAMBDA x : x.texto_norm = t)] ]

\* _encontrar_questao without the warning of line 365
encontrar_questao_sem_aviso(mapa, codigo, texto) ==
    LET cod_norm   == extrair_digitos_codigo(codigo)
        texto_norm == normalizar_string(texto)
        chave      == <<cod_norm, texto_norm>>
    IN  IF DOMAIN mapa.by_code # {} /\ chave \in DOMAIN mapa.by_code
        THEN [achou |-> TRUE, info |-> mapa.by_code[chave], aviso |-> FALSE]
        ELSE IF texto_norm \in DOMAIN mapa.by_text /\ mapa.by_text[texto_norm] # <<>>
        THEN [achou |-> TRUE, info |-> mapa.by_text[texto_norm][1], aviso |-> FALSE]
        ELSE [achou |-> FALSE, info |-> SemInfo, aviso |-> FALSE]

\* _encontrar_questao taking the last candidate of the text-only match
encontrar_questao_ultimo(mapa, codigo, texto) ==
    LET cod_norm   == extrair_digitos_codigo(codigo)
        texto_norm == normalizar_string(texto)
        chave      == <<cod_norm, texto_norm>>
    IN  IF DOMAIN mapa.by_code # {} /\ chave \in DOMAIN mapa.by_code
        THEN [achou |-> TRUE, info |-> mapa.by_code[chave], aviso |-> FALSE]
        ELSE IF texto_norm \in DOMAIN mapa.by_text /\ mapa.by_text[texto_norm] # <<>>
        THEN LET candidatos == mapa.by_text[texto_norm]
             IN  [achou |-> TRUE, info |-> candidatos[Len(candidatos)],
                  aviso |-> Len(candidatos) > 1]
        ELSE [achou |-> FALSE, info |-> SemInfo, aviso |-> FALSE]

\* _encontrar_questao: the info found (if any) and whether the warning of
\* several questions for the text is printed
encontrar_questao(mapa, codigo, texto) ==
    LET cod_norm   == extrair_digitos_codigo(codigo)
        texto_norm == normalizar_string(texto)
        chave      == <<cod_norm, texto_norm>>
    IN  IF DOMAIN mapa.by_code # {} /\ chave \in DOMAIN mapa.by_code
        THEN [achou |-> TRUE, info |-> mapa.by_code[chave], aviso |-> FALSE]
        ELSE IF texto_norm \in DOMAIN mapa.by_text /\ mapa.by_text[texto_norm] # <<>>
        THEN LET candidatos == mapa.by_text[texto_norm]
             IN  [achou |-> TRUE, info |-> candidatos[1],
                  aviso |-> Len(candidatos) > 1]
        ELSE [achou |-> FALSE, info |-> SemInfo, aviso |-> FALSE]

\* the accented answer spellings of the source lists (A-tilde U+00C3, A-acute U+00C1)
NAO_TIL == <<"N", "U+00C3", "O">>
NAO_APLICAVEL_TIL == NAO_TIL \o Chars(" APLIC") \o <<"U+00C1">> \o Chars("VEL")
NAO_SE_APLICA_TIL == NAO_TIL \o Chars(" SE APLICA")

\* lines 372-383: the target label of an answer
alvo_da_resposta(resposta) ==
    LET resposta_original == strip(resposta)
        resposta_norm     == normalizar_string(resposta_original)
    IN  IF resposta_norm \in {Chars("SIM"), Chars("S"), Chars("YES"), Chars("Y")} THEN SIM
        ELSE IF resposta_norm \in {Chars("NAO"), NAO_TIL, Chars("N"), Chars("NO")} THEN NAO
        ELSE IF resposta_norm \in {Chars("NA"), Chars("N/A"), NAO_APLICAVEL_TIL,
                                   NAO_SE_APLICA_TIL} THEN NA
        ELSE resposta_original

possiveis_na ==
    { Chars("NA"), Chars("N/A"), Chars("NAO APLICAVEL"), Chars("NAO SE APLICA"),
      Chars("NAO SE APLICAR"), Chars("NAO APLICAVEL AO TRABALHO"),
      Chars("NAO SE APLICA AO TRABALHO") }

\* _texto_label_corresponde accepting any label that starts with "NAO" for 'NA'
texto_label_corresponde_prefixo(texto_label, alvo) ==
    LET texto_label_norm == normalizar_string(texto_label)
        alvo_norm        == normalizar_string(alvo)
    IN  IF alvo_norm \in {Chars("NA"), Chars("N/A")}
        THEN \/ texto_label_norm \in possiveis_na
             \/ Contains(Chars("NAO"), texto_label_norm)
        ELSE IF alvo_norm = Chars("SIM") THEN texto_label_norm = Chars("SIM")
        ELSE IF alvo_norm \in {Chars("NAO"), NAO_TIL}
        THEN texto_label_norm \in {Chars("NAO"), NAO_TIL}
        ELSE texto_label_norm = alvo_norm

texto_label_corresponde(texto_label, alvo) ==
    LET texto_label_norm == normalizar_string(texto_label)
        alvo_norm        == normalizar_string(alvo)
    IN  IF alvo_norm \in {Chars("NA"), Chars("N/A")}
        THEN \/ texto_label_norm \in possiveis_na
             \/ Contains(Chars("NAO SE APLICA"), texto_label_norm)
             \/ Contains(Chars("NAO APLICAVEL"), texto_label_norm)
        ELSE IF alvo_norm = Chars("SIM") THEN texto_label_norm = Chars("SIM")
        ELSE IF alvo_norm \in {Chars("NAO"), NAO_TIL}
        THEN texto_label_norm \in {Chars("NAO"), NAO_TIL}
        ELSE texto_label_norm = alvo_norm

RECURSIVE percorrer_spans(_, _, _, _)
\* lines 398-441: the loop over the option spans from span i on.  efeitos[i] is
\* what clicking span i does: "selecionado" (the radio ends selected),
\* "sem_efeito" (no strategy selects it) or "erro" (an exception, caught)
percorrer_spans(opcoes, efeitos, alvo, i) ==
    IF i > Len(opcoes) THEN [sucesso |-> FALSE, span |-> 0]
    ELSE IF texto_label_corresponde(strip(opcoes[i]), alvo) /\ efeitos[i] = "selecionado"
    THEN [sucesso |-> TRUE, span |-> i]
    ELSE percorrer_spans(opcoes, efeitos, alvo, i + 1)

\* _marcar_resposta.  container is what row.find_element(".resposta") does: "ok",
\* "ausente" (NoSuchElementException, caught) or "stale" (any other exception,
\* which leaves the method)
marcar_resposta(row, resposta, container, efeitos) ==
    LET alvo == alvo_da_resposta(resposta)
    IN  IF container = "stale"
        THEN [excecao |-> TRUE, sucesso |-> FALSE, span |-> 0, alvo |-> alvo]
        ELSE IF container = "ausente"
        THEN [excecao |-> FALSE, sucesso |-> FALSE, span |-> 0, alvo |-> alvo]
        ELSE LET r == percorrer_spans(row.opcoes, efeitos, alvo, 1)
             IN  [excecao |-> FALSE, sucesso |-> r.sucesso, span |-> r.span, alvo |-> alvo]

\* _eh_pergunta_mudanca
eh_pergunta_mudanca(info) ==
    info.texto_norm # <<>> /\ Contains(TEXTO_MUDANCA_QPT, info.texto_norm)

\* _lidar_popup_mudanca, lines 262-316.  botao is what waiting for the 'Sim'
\* button of the popup does: "clicavel" (found by one of the two locators and
\* clicked), "ausente" (both waits time out) or "erro" (any other exception,
\* caught at line 315).  The method never raises.
lidar_popup_mudanca(botao) ==
    IF botao = "clicavel" THEN "clicou"
    ELSE IF botao = "ausente" THEN "sem_botao"
    ELSE "erro"

\* _processar_questao_individual with the popup handled whatever the marking returned
processar_questao_individual_sem_sucesso(achado, linhas, resposta, container, efeitos) ==
    IF ~achado.achou
    THEN [ excecao |-> FALSE, sucesso |-> FALSE, linha |-> 0, aviso |-> FALSE,
           span |-> 0, alvo |-> <<>>, popup |-> FALSE ]
    ELSE LET resposta_norm == normalizar_string(resposta)
             m == marcar_resposta(linhas[achado.info.row], resposta, container, efeitos)
         IN  [ excecao |-> m.excecao, sucesso |-> m.sucesso,
               linha |-> achado.info.row, aviso |-> achado.aviso,
               span |-> m.span, alvo |-> m.alvo,
               popup |-> /\ ~m.excecao
                         /\ eh_pergunta_mudanca(achado.info)
                         /\ resposta_norm \in {Chars("NAO"), NAO_TIL, Chars("NO"), Chars("N")} ]

\* _processar_questao_individual, lines 237-253, on the result  achado  of the
\* lookup of line 236
processar_questao_individual(achado, linhas, resposta, container, efeitos) ==
    IF ~achado.achou
    THEN [ excecao |-> FALSE, sucesso |-> FALSE, linha |-> 0, aviso |-> FALSE,
           span |-> 0, alvo |-> <<>>, popup |-> FALSE ]
    ELSE LET resposta_norm == normalizar_string(resposta)
             m == marcar_resposta(linhas[achado.info.row], resposta, container, efeitos)
         IN  [ excecao |-> m.excecao, sucesso |-> m.sucesso,
               linha |-> achado.info.row, aviso |-> achado.aviso,
               span |-> m.span, alvo |-> m.alvo,
               popup |-> /\ ~m.excecao
                         /\ m.sucesso
                         /\ eh_pergunta_mudanca(achado.info)
                         /\ resposta_norm \in {Chars("NAO"), NAO_TIL, Chars("NO"), Chars("N")} ]

---------------------------------------------------------------------------
(* quent3_preenchimento: EPI adicional processor                            *)
(* A row of the EPI container is a record  [tem_elementos, ordem, pergunta, *)
(* tem_resposta, opcoes]: whether the .ordem and .pergunta elements exist,  *)
(* their texts, whether the .resposta.simnao element exists, and the labels *)
(* of its spans in document order.  A dictionary is the sequence of its     *)
(* items <<key, value>> in insertion order.                                 *)

DEBUG_EPI_DRY_RUN == FALSE

\* the keys of the EPI-radio table in the order the dictionary holds them
ORDEM_EPI_RADIOS ==
    <<EPI_Q001_CINTO, EPI_Q002_VENT, EPI_Q003_COLETE, EPI_Q004_ILUM, EPI_Q005_DPA,
      EPI_Q006_PROT_FACIAL>>

\* _extrair_resposta_valor for a text: str(valor).strip().upper()
extrair_resposta_valor(valor) ==
    LET resposta == upper(strip(valor))
    IN  IF resposta \in {Chars("SIM"), NAO_TIL, Chars("NAO")} THEN resposta ELSE None

\* chave in mapa
dict_tem(mapa, chave) == \E i \in DOMAIN mapa : mapa[i][1] = chave

\* mapa[chave]
dict_get(mapa, chave) == mapa[CHOOSE i \in DOMAIN mapa : mapa[i][1] = chave][2]

\* mapa[chave] = valor
dict_set(mapa, chave, valor) ==
    IF dict_tem(mapa, chave)
    THEN Tupla([i \in DOMAIN mapa |-> IF mapa[i][1] = chave THEN <<chave, valor>> ELSE mapa[i]])
    ELSE Append(mapa, <<chave, valor>>)

RECURSIVE extrair_mapa_itens(_, _, _)
\* lines 687-692: for each key (code, text) of the plan, processar_item(chave[0], valor)
extrair_mapa_itens(epi_radios_plano, chaves, mapa) ==
    IF chaves = <<>> THEN mapa
    ELSE LET chave    == upper(Chars(Head(chaves)[1]))
             resposta == extrair_resposta_valor(epi_radios_plano[Head(chaves)])
         IN  extrair_mapa_itens(epi_radios_plano, Tail(chaves),
                                IF chave # <<>> /\ Head(chave) = "Q" /\ resposta # None
                                THEN dict_set(mapa, chave, resposta) ELSE mapa)

\* _extrair_mapa_respostas: the dictionary from the code of each key to its answer
extrair_mapa_respostas(epi_radios_plano) ==
    extrair_mapa_itens(epi_radios_plano,
                       SelectSeq(ORDEM_EPI_RADIOS, LAMBDA k : k \in DOMAIN epi_radios_plano),
                       <<>>)

RECURSIVE lstrip_zeros(_)
\* str.lstrip("0")
lstrip_zeros(s) == IF s # <<>> /\ Head(s) = "0" THEN lstrip_zeros(Tail(s)) ELSE s

\* _extrair_info_questao returning None
SemInfoQuestao == [ok |-> FALSE, codigo |-> None, pergunta |-> <<>>]

\* _extrair_info_questao
extrair_info_questao(row) ==
    IF ~row.tem_elementos THEN SemInfoQuestao
    ELSE LET ordem_raw == strip(row.ordem)
             sem_zeros == lstrip_zeros(ordem_raw)
             ordem     == IF sem_zeros # <<>> THEN sem_zeros ELSE ordem_raw
         IN  [ ok |-> TRUE,
               codigo |-> IF ordem # <<>> THEN <<"Q">> \o zfill(ordem, 3) ELSE None,
               pergunta |-> strip(row.pergunta) ]

\* _obter_resposta_esperada
obter_resposta_esperada(info, mapa) ==
    IF info.codigo # None /\ dict_tem(mapa, info.codigo) THEN dict_get(mapa, info.codigo)
    ELSE IF info.pergunta # <<>>
    THEN LET pergunta_norm == normalizar_string(info.pergunta)
             iguais == {i \in DOMAIN mapa : normalizar_string(mapa[i][1]) = pergunta_norm}
         IN  IF iguais # {} THEN mapa[Minimo(iguais)][2] ELSE None
    ELSE None

\* _marcar_resposta_epi: the label clicked, None when nothing is clicked
marcar_resposta_epi(row, resposta) ==
    LET alvo_label == IF normalizar_string(resposta) = Chars("SIM") THEN SIM ELSE NAO
        iguais == {i \in DOMAIN row.opcoes :
                      /\ row.opcoes[i] # None
                      /\ normalizar_string(row.opcoes[i]) = normalizar_string(alvo_label)}
    IN  IF DEBUG_EPI_DRY_RUN \/ ~row.tem_resposta \/ iguais = {} THEN None
        ELSE row.opcoes[Minimo(iguais)]

\* _processar_questao_epi: the question read, its expected answer and the label
\* clicked
processar_questao_epi(row, mapa) ==
    LET info == extrair_info_questao(row)
    IN  IF ~info.ok
        THEN [ok |-> FALSE, codigo |-> None, resposta |-> None, clicado |-> None]
        ELSE LET resposta == obter_resposta_esperada(info, mapa)
             IN  [ ok |-> TRUE, codigo |-> info.codigo, resposta |-> resposta,
                   clicado |-> IF resposta = None THEN None
                               ELSE marcar_resposta_epi(row, resposta) ]

---------------------------------------------------------------------------
(* quent3_preenchimento: APN-1 processor                                    *)
(* A row of the tab is a record  [tem_pergunta, pergunta, tem_ordem, id_sim, *)
(* id_nao]: whether the question and order elements exist, the question     *)
(* text, and whether a radio id was found for Sim and for Nao.              *)

\* APN1Processor._extrair_info_pergunta for the row at position i
apn1_extrair_info_pergunta(row, i) ==
    IF ~row.tem_pergunta THEN SemInfo
    ELSE LET texto == strip(row.pergunta)
         IN  IF texto = <<>> \/ ~row.tem_ordem THEN SemInfo
             ELSE [ ok |-> TRUE, indice |-> i, texto |-> texto,
                    texto_norm |-> normalizar_string(texto),
                    id_sim |-> row.id_sim, id_nao |-> row.id_nao ]

\* APN1Processor._coletar_perguntas
coletar_perguntas(linhas) ==
    SelectSeq([i \in 1..Len(linhas) |-> apn1_extrair_info_pergunta(linhas[i], i)], InfoValida)

\* the table of _determinar_resposta: patterns looked for in the question text,
\* keywords looked for in the context
mapeamento ==
    << [ padroes |-> <<"espaco confinado", "interior de espaco">>,
         palavras |-> <<"ESPACO CONFINADO">> ],
       [ padroes |-> <<"altura acima de 2m", "trabalho em altura", "acesso por cordas">>,
         palavras |-> <<"ALTURA", "ACESSO POR CORDAS">> ],
       [ padroes |-> <<"sobre o mar">>,
         palavras |-> <<"SOBRE O MAR">> ],
       [ padroes |-> <<"chama aberta", "solda", "oxicorte", "esmerilhadeira">>,
         palavras |-> <<"CHAMA ABERTA", "SOLDA", "OXICORTE", "ESMERILHADEIRA">> ],
       [ padroes |-> <<"protegido por co2", "ambientes protegidos por co2", "sistema de co2">>,
         palavras |-> <<"PROTEGIDO POR CO2", "AMBIENTES PROTEGIDOS POR CO2">> ],
       [ padroes |-> <<"pressurizado", "sistema pressurizado">>,
         palavras |-> <<"PRESSURIZADO">> ],
       [ padroes |-> <<"hidrojateamento", "hidrojato">>,
         palavras |-> <<"HIDROJATO", "HIDROJATEAMENTO">> ],
       [ padroes |-> <<"partes moveis", "partes moveis expostas">>,
         palavras |-> <<"PARTES MOVEIS">> ] >>

\* _determinar_resposta: "Sim" when a pattern of some entry is in the question text
\* and a keyword of the same entry is in the context, "Nao" otherwise
determinar_resposta(texto_pergunta, contexto) ==
    IF \E m \in 1..Len(mapeamento) :
          /\ \E p \in 1..Len(mapeamento[m].padroes) :
                 Contains(Chars(mapeamento[m].padroes[p]), texto_pergunta)
          /\ \E w \in 1..Len(mapeamento[m].palavras) :
                 Contains(Chars(mapeamento[m].palavras[w]), contexto)
    THEN SIM ELSE NAO

\* _processar_pergunta_individual: the answer determined and whether it ended
\* marked; marcou is what APN1Processor._marcar_resposta returns for the form
processar_pergunta_individual(pergunta, contexto, marcou) ==
    LET resposta == determinar_resposta(pergunta.texto_norm, contexto)
        tem_id == \/ (resposta = SIM /\ pergunta.id_sim)
                  \/ (resposta = NAO /\ pergunta.id_nao)
    IN  [resposta |-> resposta, sucesso |-> tem_id /\ marcou]

---------------------------------------------------------------------------
(* quent4_epi: EPI tab processor                                            *)
(* Item names are sequences of characters here: the plan handed to the      *)
(* processor is the plan of the builders with every name spelled out.       *)
(* A row of a category table is  [tem_celula, texto];  the association      *)
(* dialog is a sequence of rows  [rotulo, marcado]  (label, checkbox        *)
(* ticked) in document order.                                               *)

CATEGORIAS_EPI == <<"Vestimentas", "Oculos", "Luvas", "Protecao Respiratoria">>

\* sorted() on item names: the names the model uses, in the order Python gives
\* their original spellings (accented capitals sort after Z)
ITENS_ORDENADOS ==
    << "AVENTAL DE PVC", "AVENTAL DE RASPA", "BALACLAVA", "BOTA CANO ALTO",
       "CAPACETE S/ABAS C/ CARNEIRA E PRESILHA DE QUEIXO EM Y", "CAPUZ",
       "CINTO DE SEG. TP PARA-QUEDISTA", "CINTO DE SEGURANCA PARA RESGATE",
       "COLETE SALVA VIDAS RF (apenas para trabalhos a quente)", "COLETE SALVA-VIDAS",
       "DUPLA PROTECAO AUDITIVA",
       "DUPLO TALABARTE EM Y OU LINHA DE VIDA CONJUGADA TRAVA QUEDA",
       "EPI^s OBRIGATORIOS (CAPACETE, BOTA, PROT. AURIC. E UNIFORME)",
       "LENTE DE ACORDO COM AMPERAGEM DA MAQUINA", "LUVA ANTI-VIBRACAO", "LUVA ARAMIDA",
       "LUVA DE PROTECAO CONTRA IMPACTOS MODELO II (3, 4, 3, 3, 'C', 'P')",
       "LUVA DE RASPA", "LUVA NITRILICA", "MACACAO COM GOLA TIPO PADRE E BOLSOS FECHADOS",
       "MANGA DE RASPA", "MASCARA SOLDADOR", "NAO APLICAVEL", "PERNEIRA DE RASPA",
       "PECA SEMI-FACIAL FILTRANTE 2", "PROTETOR FACIAL", "VESTIM. COMPLETA DE RASPA",
       "OCULOS AMPLA VISAO", "OCULOS ESCUROS", "OCULOS MACARIQUEIRO",
       "OCULOS SEGURANCA CONTRA IMPACTO" >>

\* sorted(itens)
ITENS_ORDENADOS_texto == [i \in 1..Len(ITENS_ORDENADOS) |-> Chars(ITENS_ORDENADOS[i])]

sorted(itens) == SelectSeq(ITENS_ORDENADOS_texto, LAMBDA x : x \in itens)

\* _extrair_item_linha: the stripped text of the first cell, None when there is
\* no cell or no text
extrair_item_linha(linha) ==
    IF ~linha.tem_celula THEN None
    ELSE LET texto_limpo == strip(linha.texto)
         IN  IF texto_limpo # <<>> THEN texto_limpo ELSE None

\* _extrair_itens_categoria
extrair_itens_categoria(linhas) ==
    SelectSeq([i \in 1..Len(linhas) |-> extrair_item_linha(linhas[i])],
              LAMBDA item : item # None)

\* the elements of a list: set(lista)
ConjuntoDe(lista) == {lista[i] : i \in 1..Len(lista)}

\* quent4_epi.normalizar_texto_epi: ' '.join(texto.split()).upper().strip()
normalizar_texto_epi(texto) ==
    IF texto = <<>> THEN <<>> ELSE strip(upper(strip(sub_espacos(texto))))

\* _comparar_com_plano
comparar_com_plano(info, plan) ==
    LET esperados  == IF info.nome \in DOMAIN plan THEN plan[info.nome] ELSE {}
        atuais_set == ConjuntoDe(info.itens_atuais)
    IN  [faltantes |-> esperados \ atuais_set, excedentes |-> atuais_set \ esperados]

\* str.lower() and XPath translate(., 'A..Z', 'a..z') on the unaccented names
lower(s) ==
    Tupla([i \in 1..Len(s) |->
              IF EstaEm(s[i], Maiusculas) THEN Minusculas[IndiceDe(s[i], Maiusculas)]
              ELSE s[i]])

\* XPath normalize-space() on a label without tabs or line breaks
normalize_space(s) ==
    LET limpo == SelectSeq([i \in 1..Len(s) |->
                               IF s[i] # " " THEN s[i]
                               ELSE IF i > 1 /\ s[i - 1] = " " THEN "" ELSE " "], NaoVazio)
        sem_inicio == IF limpo # <<>> /\ Head(limpo) = " " THEN Tail(limpo) ELSE limpo
    IN  IF sem_inicio # <<>> /\ sem_inicio[Len(sem_inicio)] = " "
        THEN SubSeq(sem_inicio, 1, Len(sem_inicio) - 1) ELSE sem_inicio

\* the XPath of search strategies 1 and 2 quotes the item with apostrophes: an
\* item that holds an apostrophe makes an invalid expression
xpath_valido(item) == ~EstaEm("'", item)

\* the value of a one-element set
Unico(S) == CHOOSE x \in S : TRUE

\* whether the row label satisfies the XPath of search strategy k for the item
estrategia_busca(k, rotulo, item) ==
    CASE k = 1 -> normalize_space(rotulo) = item
      [] k = 2 -> \E agulha \in {lower(item)} : \E palheiro \in {lower(rotulo)} :
                      Contains(agulha, palheiro)
      [] OTHER -> /\ Contains(Chars("EPI"), rotulo)
                  /\ Contains(Chars("OBRIGATORIOS"), rotulo)

RECURSIVE primeira_linha(_, _, _, _)
\* find_element with the XPath of strategy k: the first matching row from
\* position i on, 0 when there is none (NoSuchElementException)
primeira_linha(k, item, modal, i) ==
    IF i > Len(modal) THEN 0
    ELSE IF estrategia_busca(k, modal[i].rotulo, item) THEN i
    ELSE primeira_linha(k, item, modal, i + 1)

RECURSIVE tentar_estrategias(_, _, _)
\* _selecionar_item_modal from strategy k on: the position of the row whose
\* checkbox is clicked, 0 when none is
tentar_estrategias(k, item, modal) ==
    IF k > 4 THEN 0
    ELSE IF k <= 2 /\ ~xpath_valido(item) THEN tentar_estrategias(k + 1, item, modal)
    ELSE Unico({ IF linha # 0 /\ ~modal[linha].marcado THEN linha
                 ELSE tentar_estrategias(k + 1, item, modal) :
                 linha \in {primeira_linha(k, item, modal, 1)} })

\* _selecionar_item_modal: the dialog after the item was looked up
selecionar_item_modal(item, modal) ==
    Unico({ IF i = 0 THEN modal ELSE [modal EXCEPT ![i].marcado = TRUE] :
            i \in {tentar_estrategias(1, item, modal)} })

RECURSIVE selecionar_cada_item(_, _)
selecionar_cada_item(itens, modal) ==
    IF itens = <<>> THEN modal
    ELSE selecionar_cada_item(Tail(itens), selecionar_item_modal(Head(itens), modal))

\* _selecionar_itens_modal when the table of the dialog is present
selecionar_itens_modal(itens, modal) == selecionar_cada_item(sorted(itens), modal)

Marcadas(modal) == {modal[i].rotulo : i \in {j \in 1..Len(modal) : modal[j].marcado}}

SemResultado == [faltantes |-> {}, excedentes |-> {}]

\* no comparison made for the category
SemCategoria ==
    [ coletou |-> FALSE, resultado |-> SemResultado, incluir |-> {}, procurados |-> {},
      marcadas |-> {}, acoes |-> {}, modal_aberto |-> FALSE ]

\* _coletar_info_categoria returning None
SemInfoEPI == [ok |-> FALSE, nome |-> "", itens_atuais |-> <<>>]

\* _coletar_info_categoria: achou: the label of the category is found and its
\* container read without error; linhas: the rows of its tables
coletar_info_categoria(categoria, achou, linhas) ==
    IF ~achou THEN SemInfoEPI
    ELSE [ok |-> TRUE, nome |-> categoria, itens_atuais |-> extrair_itens_categoria(linhas)]

\* _incluir_itens_faltantes on what the form does (amb): botao_ok: the '+' button
\* is there and enabled; abre: the dialog opens; tabela: its table has rows;
\* modal: the rows; confirmar: "ok", "timeout" (Confirmar never clickable, Cancelar
\* is clicked) or "erro"; fecha: the dialog is gone afterwards
incluir_itens_faltantes(itens_faltantes, amb) ==
    IF ~amb.botao_ok
    THEN [procurados |-> {}, marcadas |-> {}, acoes |-> {}, modal_aberto |-> FALSE]
    ELSE IF ~amb.abre
    THEN [procurados |-> {}, marcadas |-> {}, acoes |-> {"abrir"}, modal_aberto |-> FALSE]
    ELSE Unico({
           [ procurados |-> IF amb.tabela THEN itens_faltantes ELSE {},
             marcadas |-> novas,
             acoes |-> {"abrir"}
                       \cup (IF novas # {} THEN {"marcar"} ELSE {})
                       \cup (IF ~amb.tabela THEN {"cancelar"} ELSE {})
                       \cup (CASE amb.confirmar = "ok" -> {"confirmar"}
                               [] amb.confirmar = "timeout" -> {"cancelar"}
                               [] OTHER -> {}),
             modal_aberto |-> ~amb.fecha ] :
           novas \in { IF amb.tabela
                       THEN Marcadas(selecionar_itens_modal(itens_faltantes, amb.modal))
                                \ Marcadas(amb.modal)
                       ELSE {} } })

\* lines 142-151 of _processar_categoria, with the removal of lines 149-151 in
\* force when  remove  is true
comparar_e_incluir(info, plan, amb, remove) ==
    Unico({
      Unico({
        [ coletou |-> TRUE, resultado |-> resultado,
          incluir |-> resultado.faltantes, procurados |-> r.procurados,
          marcadas |-> r.marcadas,
          acoes |-> r.acoes \cup (IF remove /\ resultado.excedentes # {}
                                  THEN {"remover"} ELSE {}),
          modal_aberto |-> r.modal_aberto ] :
        r \in { IF resultado.faltantes # {}
                THEN incluir_itens_faltantes(resultado.faltantes, amb)
                ELSE [procurados |-> {}, marcadas |-> {}, acoes |-> {},
                      modal_aberto |-> FALSE] } }) :
      resultado \in {comparar_com_plano(info, plan)} })

\* _processar_categoria after the information is collected, with the removal of
\* lines 149-151 in force
processar_categoria_com_remocao(info, plan, amb) == comparar_e_incluir(info, plan, amb, TRUE)

\* _processar_categoria after the information is collected: what was compared,
\* the items handed to _incluir_itens_faltantes, those looked up in the dialog,
\* the rows ticked, the kinds of action issued on the form and whether the
\* dialog is left open
processar_categoria(info, plan, amb) == comparar_e_incluir(info, plan, amb, FALSE)

---------------------------------------------------------------------------
(* Job texts *)

\* c-cedilla U+00E7, a-acute U+00E1 are written by code point
Vocabulario ==
    { Chars("TRABALHO A QUENTE COM SOLDA EM ALTURA"),
      Chars("OXICORTE SOBRE O MAR"),
      Chars("Soldador"),
      Chars("espa") \o <<"U+00E7">> \o Chars("o confinado"),
      Chars("lixadeira pneum") \o <<"U+00E1">> \o Chars("tica"),
      Chars("pintura") }

RECURSIVE Frases(_)
\* the texts made of at most n vocabulary phrases, separated by one space
Frases(n) ==
    IF n = 0 THEN {<<>>}
    ELSE LET menores == Frases(n - 1)
         IN  menores \cup Vocabulario
                     \cup {t \o <<" ">> \o v : t \in menores \ {<<>>}, v \in Vocabulario}

Descricoes == Frases(MaxFrases)

Caracteristicas ==
    { <<>>,
      Chars("Trabalho em altura, Sistema pressurizado"),
      Chars("ambientes protegidos por CO2") }

---------------------------------------------------------------------------
(* Plan generation: aplatquente.processar_etapa, steps 4 and 5 *)

\* the Questionario PT processor before preencher is called
QPTParado ==
    /\ rows = <<>>
    /\ qpt_plano = <<>>
    /\ question_map = [by_code |-> <<>>, by_text |-> <<>>]
    /\ pos = 0
    /\ total_processadas = 0
    /\ sucessos = 0
    /\ pcQ = "parado"
    /\ tentativas = <<>>
    /\ aplicadas = {}
    /\ marcado = <<>>
    /\ ultimo = [ entrada |-> 0, linha |-> 0, aviso |-> FALSE, span |-> 0, alvo |-> <<>>,
                  sucesso |-> FALSE, popup |-> FALSE, clique_popup |-> "nenhum" ]
    /\ retorno = [ok |-> FALSE, sucessos |-> 0, total |-> 0, confirmar |-> FALSE]

RotuloParado ==
    /\ rotulo_texto = <<>>
    /\ rotulo_alvo = <<>>
    /\ rotulo_corresponde = "?"

\* the APN-1 processor before preencher is called
APN1Parado ==
    /\ apn1_rows = <<>>
    /\ apn1_contexto = <<>>
    /\ apn1_perguntas = <<>>
    /\ apn1_pos = 0
    /\ apn1_respostas = <<>>
    /\ apn1_sucessos = 0
    /\ apn1_falhas = 0
    /\ pcA = "parado"

EPIParado ==
    /\ epis_cat_plano = <<>>
    /\ epi_pos = 0
    /\ epi_info = SemInfoEPI
    /\ epi_ultimo = SemCategoria
    /\ pcE = "parado"

NormParado ==
    /\ norm_entrada = <<>>
    /\ norm_texto = <<>>
    /\ norm_string = <<>>

EPIAdParado ==
    /\ epiad_plano = <<>>
    /\ epiad_rows = <<>>
    /\ mapa_respostas = <<>>
    /\ epiad_pos = 0
    /\ epiad_respostas = <<>>
    /\ pcD = "parado"

CodParado ==
    /\ cod_entrada = <<>>
    /\ cod_saida = <<>>

RunParado ==
    /\ args_valor = <<>>
    /\ run_idx = 0
    /\ pcM = "parado"
    /\ tipo_trabalho = <<>>
    /\ form_pos = 0
    /\ form_erros = {}
    /\ historico = <<>>
    /\ navegador = "fechado"
    /\ excecao = FALSE

\* every variable group of the forms but the run's own
uiVarsSemRun == <<qptVars, rotuloVars, apn1Vars, epiVars, normVars, epiAdVars, codVars>>

uiVars == <<qptVars, rotuloVars, apn1Vars, epiVars, normVars, epiAdVars, codVars, runVars>>

UIParado == QPTParado /\ RotuloParado /\ APN1Parado /\ EPIParado /\ NormParado /\ EPIAdParado /\ CodParado /\ RunParado

ctx_vazio == [f \in Flags |-> FALSE] @@ [texto_full |-> <<>>]

InitPlano ==
    /\ EPI_RADIOS_BASE = EPI_RADIOS_BASE_literal
    /\ EPIS_CAT_BASE = EPIS_CAT_BASE_literal
    /\ QPT_BASE = QPT_BASE_literal
    /\ descricao = <<>>
    /\ caracteristicas = <<>>
    /\ idx = 0
    /\ etapa = "inicio"
    /\ plano = <<>>

\* coletar_dados_etapa: the texts of the stage are read from the form
ColetarDadosEtapa(d, c) ==
    /\ etapa \in {"inicio", "planejada"}
    /\ idx < MaxEtapas
    /\ idx' = idx + 1
    /\ descricao' = d
    /\ caracteristicas' = c
    /\ etapa' = "coletada"
    /\ plano' = <<>>
    /\ UNCHANGED <<EPI_RADIOS_BASE, EPIS_CAT_BASE, QPT_BASE>>
    /\ UNCHANGED uiVars

\* executar_plano_completo: plano = gerar_plano_trabalho_quente(descricao, caracteristicas)
GerarPlano ==
    /\ etapa = "coletada"
    /\ \E r \in {gerar_plano_trabalho_quente(descricao, caracteristicas)} :
           /\ plano' = r.plano
           /\ EPI_RADIOS_BASE' = r.EPI_RADIOS_BASE
           /\ EPIS_CAT_BASE' = r.EPIS_CAT_BASE
           /\ QPT_BASE' = r.QPT_BASE
    /\ etapa' = "planejada"
    /\ UNCHANGED <<descricao, caracteristicas, idx>>
    /\ UNCHANGED uiVars

Init == InitPlano /\ UIParado

Next ==
    \/ \E d \in Descricoes, c \in Caracteristicas : ColetarDadosEtapa(d, c)
    \/ GerarPlano

Spec == Init /\ [][Next]_vars

---------------------------------------------------------------------------
(* The classifier on job texts that are absent, empty, free of every phrase,
   or carry phrases of the flags: with accents and lower case, inside a
   longer word, and split between the two texts *)

DescricoesClassificador ==
    { None, <<>>,
      Chars("pintura"),
      Chars("Soldador"),
      Chars("solda"),
      Chars("recorte de chapa"),
      Chars("corte com serra sabre"),
      Chars("espa") \o <<"U+00E7">> \o Chars("o confinado"),
      Chars("interior do tanque"),
      Chars("oxicorte sobre o mar"),
      Chars("lixadeira pneum") \o <<"U+00E1">> \o Chars("tica"),
      Chars("esmerilhadeira el") \o <<"U+00E9">> \o Chars("trica"),
      Chars("hidrojateamento"),
      Chars("agulheiro, tratamento mec") \o <<"U+00E2">> \o Chars("nico"),
      Chars("trabalho em"),
      Chars("solda_mig e oxicorte"),
      Chars("pre-corte, solda") }

CaracteristicasClassificador ==
    { None, <<>>,
      Chars("Trabalho em altura"),
      Chars("altura"),
      Chars("acesso por cordas NR-35"),
      Chars("protegido por sistema de CO2"),
      Chars("sistema pressurizado"),
      Chars("partes moveis"),
      Chars("chama aberta"),
      Chars("limpeza") }

InitClassificador ==
    /\ EPI_RADIOS_BASE = EPI_RADIOS_BASE_literal
    /\ EPIS_CAT_BASE = EPIS_CAT_BASE_literal
    /\ QPT_BASE = QPT_BASE_literal
    /\ descricao \in DescricoesClassificador
    /\ caracteristicas \in CaracteristicasClassificador
    /\ idx = 1
    /\ etapa = "coletada"
    /\ plano = <<>>
    /\ UIParado

NextClassificador == GerarPlano

SpecClassificador == InitClassificador /\ [][NextClassificador]_vars

---------------------------------------------------------------------------
(* The builders over every context: flags turned on one at a time *)

InitCtx ==
    /\ EPI_RADIOS_BASE = EPI_RADIOS_BASE_literal
    /\ EPIS_CAT_BASE = EPIS_CAT_BASE_literal
    /\ QPT_BASE = QPT_BASE_literal
    /\ descricao = <<>>
    /\ caracteristicas = <<>>
    /\ idx = 1
    /\ etapa = "planejada"
    /\ plano = montar_plano(ctx_vazio).plano
    /\ UIParado

\* the builders run on the context with one more flag true
LigarFlag(f) ==
    /\ ~plano.contexto[f]
    /\ Cardinality({g \in Flags : plano.contexto[g]}) < MaxFlagsLigadas
    /\ \E r \in {montar_plano([plano.contexto EXCEPT ![f] = TRUE])} :
           /\ plano' = r.plano
           /\ EPI_RADIOS_BASE' = r.EPI_RADIOS_BASE
           /\ EPIS_CAT_BASE' = r.EPIS_CAT_BASE
           /\ QPT_BASE' = r.QPT_BASE
    /\ UNCHANGED <<descricao, caracteristicas, idx, etapa>>
    /\ UNCHANGED uiVars

NextCtx == \E f \in Flags : LigarFlag(f)

SpecCtx == InitCtx /\ [][NextCtx]_vars

---------------------------------------------------------------------------
(* The builders on every combination of flag values *)

InitTabelas ==
    /\ EPI_RADIOS_BASE = EPI_RADIOS_BASE_literal
    /\ EPIS_CAT_BASE = EPIS_CAT_BASE_literal
    /\ QPT_BASE = QPT_BASE_literal
    /\ descricao = <<>>
    /\ caracteristicas = <<>>
    /\ idx = 1
    /\ etapa = "coletada"
    /\ \E f \in [Flags -> BOOLEAN] : plano = [contexto |-> f @@ [texto_full |-> <<>>]]
    /\ UIParado

\* lines 548-561 on the given context
MontarTabelas ==
    /\ etapa = "coletada"
    /\ \E r \in {montar_plano(plano.contexto)} :
           /\ plano' = r.plano
           /\ EPI_RADIOS_BASE' = r.EPI_RADIOS_BASE
           /\ EPIS_CAT_BASE' = r.EPIS_CAT_BASE
           /\ QPT_BASE' = r.QPT_BASE
    /\ etapa' = "planejada"
    /\ UNCHANGED <<descricao, caracteristicas, idx>>
    /\ UNCHANGED uiVars

NextTabelas == MontarTabelas

SpecTabelas == InitTabelas /\ [][NextTabelas]_vars

---------------------------------------------------------------------------
(* Questionario PT: the resolver on every small form and plan key *)

SemTentativa ==
    [ entrada |-> 0, linha |-> 0, aviso |-> FALSE, span |-> 0, alvo |-> <<>>,
      sucesso |-> FALSE, popup |-> FALSE, clique_popup |-> "nenhum" ]

SemRetorno == [ok |-> FALSE, sucessos |-> 0, total |-> 0, confirmar |-> FALSE]

LinhaSemElementos == [tem_elementos |-> FALSE, ordem |-> <<>>, pergunta |-> <<>>, opcoes |-> <<>>]

\* rows of the resolver runs: the labels "Q7", "8" and "-" (no digit), texts that
\* differ only by case, accent (A-acute U+00C1) and spacing, a blank text, and a
\* row without .ordem/.pergunta
LinhasResolver ==
    { [tem_elementos |-> TRUE, ordem |-> o, pergunta |-> p, opcoes |-> <<>>] :
          o \in {Chars("Q7"), Chars("8"), Chars("-")},
          p \in {Chars("a b"), <<"U+00C1", " ", " ", "B">>, Chars("c"), Chars(" ")} }
    \cup {LinhaSemElementos}

RECURSIVE Sequencias(_, _)
\* the sequences of at most n elements of S
Sequencias(S, n) ==
    IF n = 0 THEN {<<>>}
    ELSE LET menores == Sequencias(S, n - 1)
         IN  menores \cup {Append(q, x) : q \in menores, x \in S}

ChavesResolver ==
    { [codigo |-> c, texto |-> t, resposta |-> SIM] :
          c \in {Chars("Q007"), Chars("08"), <<>>},
          t \in {Chars("A b"), Chars("c"), Chars(" ")} }

InitQPTComum ==
    /\ question_map = [by_code |-> <<>>, by_text |-> <<>>]
    /\ pos = 0
    /\ total_processadas = 0
    /\ sucessos = 0
    /\ tentativas = [i \in 1..Len(qpt_plano) |-> 0]
    /\ aplicadas = {}
    /\ marcado = [i \in 1..Len(rows) |-> 0]
    /\ ultimo = SemTentativa
    /\ retorno = SemRetorno

InitResolver ==
    /\ InitPlano
    /\ RotuloParado
    /\ APN1Parado
    /\ EPIParado
    /\ NormParado
    /\ EPIAdParado
    /\ CodParado
    /\ RunParado
    /\ rows \in Sequencias(LinhasResolver, MaxLinhas)
    /\ \E k \in ChavesResolver : qpt_plano = <<k>>
    /\ pcQ = "inicio"
    /\ InitQPTComum

\* preencher, line 159: self._construir_mapa_perguntas()
ConstruirMapa ==
    /\ pcQ = "inicio"
    /\ question_map' = construir_mapa_perguntas(rows)
    /\ pcQ' = "mapeado"
    /\ UNCHANGED <<rows, qpt_plano, pos, total_processadas, sucessos, tentativas,
                   aplicadas, marcado, ultimo, retorno>>
    /\ UNCHANGED <<planVars, rotuloVars, apn1Vars, epiVars, normVars, epiAdVars, codVars, runVars>>

\* _encontrar_questao on the key of the plan entry
EncontrarQuestao ==
    /\ pcQ = "mapeado"
    /\ LET r == encontrar_questao(question_map, qpt_plano[1].codigo, qpt_plano[1].texto)
       IN  ultimo' = [SemTentativa EXCEPT !.entrada = 1,
                                          !.linha = IF r.achou THEN r.info.row ELSE 0,
                                          !.aviso = r.aviso]
    /\ pcQ' = "resolvida"
    /\ UNCHANGED <<rows, qpt_plano, question_map, pos, total_processadas, sucessos,
                   tentativas, aplicadas, marcado, retorno>>
    /\ UNCHANGED <<planVars, rotuloVars, apn1Vars, epiVars, normVars, epiAdVars, codVars, runVars>>

NextResolver == ConstruirMapa \/ EncontrarQuestao

SpecResolver == InitResolver /\ [][NextResolver]_vars

---------------------------------------------------------------------------
(* Questionario PT: label matching on every small label and target *)

\* "Nao" and "Nao se aplica" carry a-tilde U+00E3
NucleosRotulo ==
    { Chars("Sim"), Chars("SIM"), NAO, Chars("NAO"), Chars("NA"), Chars("N/A"),
      NAO \o Chars(" se aplica"), Chars("nao aplicavel"), Chars("Talvez") }

Rotulos ==
    { pre \o n \o suf : pre \in {<<>>, Chars("  ")}, n \in NucleosRotulo,
                        suf \in {<<>>, Chars(" "), Chars("."), Chars(" ao trabalho")} }

Alvos == {SIM, NAO, NA, Chars("N/A"), Chars("Talvez")}

InitRotulos ==
    /\ InitPlano
    /\ QPTParado
    /\ APN1Parado
    /\ EPIParado
    /\ NormParado
    /\ EPIAdParado
    /\ CodParado
    /\ RunParado
    /\ rotulo_texto \in Rotulos
    /\ rotulo_alvo \in Alvos
    /\ rotulo_corresponde = "?"

\* _marcar_resposta, lines 402-407: the label text is stripped and compared
CompararRotulo ==
    /\ rotulo_corresponde = "?"
    /\ rotulo_corresponde' =
           IF texto_label_corresponde(strip(rotulo_texto), rotulo_alvo) THEN "sim" ELSE "nao"
    /\ UNCHANGED <<rotulo_texto, rotulo_alvo>>
    /\ UNCHANGED <<planVars, qptVars, apn1Vars, epiVars, normVars, epiAdVars, codVars, runVars>>

NextRotulos == CompararRotulo

SpecRotulos == InitRotulos /\ [][NextRotulos]_vars

---------------------------------------------------------------------------
(* Questionario PT: preencher on a small form and plan *)

\* "Nao se aplica" with a-tilde
NAO_SE_APLICA == NAO \o Chars(" se aplica")

\* rows of the processing runs: the change question with options Sim/Nao/NA and
\* a question whose not-applicable option comes before Nao
LinhasQPT ==
    { [ tem_elementos |-> TRUE, ordem |-> Chars("1"), pergunta |-> TEXTO_MUDANCA,
        opcoes |-> <<SIM, NAO, NA>> ],
      [ tem_elementos |-> TRUE, ordem |-> Chars("12"),
        pergunta |-> Chars("Risco de Perda?"),
        opcoes |-> <<SIM, NAO_SE_APLICA, NAO>> ] }

\* the option spans of a row
SpansQPT == 1..3

Efeitos == {"selecionado", "sem_efeito", "erro"}

\* plan keys: the change question, the second question, and one not on the form
ChavesQPT ==
    { <<Chars("Q001"), Chars(QPT_Q001_MUDANCA[2])>>,
      <<Chars("Q012"), Chars("Risco de perda?")>>,
      <<Chars("Q014"), Chars("Observador?")>> }

\* answers of a plan entry: the three answers, the short spelling "N" of the
\* second, a blank text and None
RespostasPlano == {SIM, NAO, NA, Chars("N"), Chars(" "), None}

EntradasQPT ==
    { [codigo |-> k[1], texto |-> k[2], resposta |-> r] : k \in ChavesQPT, r \in RespostasPlano }

\* the plans: dicts, so no key twice
PlanosQPT ==
    { p \in Sequencias(EntradasQPT, MaxEntradas) :
          \A i, j \in 1..Len(p) :
              (p[i].codigo = p[j].codigo /\ p[i].texto = p[j].texto) => i = j }

InitQPT ==
    /\ InitPlano
    /\ RotuloParado
    /\ APN1Parado
    /\ EPIParado
    /\ NormParado
    /\ EPIAdParado
    /\ CodParado
    /\ RunParado
    /\ rows \in Sequencias(LinhasQPT, MaxLinhas)
    /\ qpt_plano \in PlanosQPT
    /\ pcQ = "inicio"
    /\ InitQPTComum

\* lines 219-224: an entry whose answer is None or blank is passed over
SemResposta(e) == e.resposta = None \/ strip(e.resposta) = <<>>

PularEntrada ==
    /\ pcQ = "mapeado"
    /\ pos < Len(qpt_plano)
    /\ SemResposta(qpt_plano[pos + 1])
    /\ pos' = pos + 1
    /\ UNCHANGED <<rows, qpt_plano, question_map, total_processadas, sucessos, pcQ,
                   tentativas, aplicadas, marcado, ultimo, retorno>>
    /\ UNCHANGED <<planVars, rotuloVars, apn1Vars, epiVars, normVars, epiAdVars, codVars, runVars>>

\* what the 'Sim' button of the change popup does when it is waited for
BotoesPopup == {"clicavel", "ausente", "erro"}

\* lines 226-229: one entry of the loop, with what the form does while the answer
\* is marked, and while the popup of the change question is handled.  An exception of _marcar_resposta leaves _processar_questoes and
\* preencher (neither has a handler)
ProcessarQuestao ==
    /\ pcQ = "mapeado"
    /\ pos < Len(qpt_plano)
    /\ ~SemResposta(qpt_plano[pos + 1])
    /\ \E achado \in {encontrar_questao(question_map, qpt_plano[pos + 1].codigo,
                                         qpt_plano[pos + 1].texto)} :
       \E container \in {"ok", "ausente", "stale"}, efeitos \in [SpansQPT -> Efeitos] :
       \E r \in {processar_questao_individual(achado, rows, strip(qpt_plano[pos + 1].resposta),
                                              container, efeitos)} :
       \E botao \in (IF r.popup THEN BotoesPopup ELSE {"ausente"}) :
           /\ total_processadas' = total_processadas + 1
           /\ tentativas' = [tentativas EXCEPT ![pos + 1] = @ + 1]
           /\ ultimo' = [ entrada |-> pos + 1, linha |-> r.linha, aviso |-> r.aviso,
                          span |-> r.span, alvo |-> r.alvo, sucesso |-> r.sucesso,
                          popup |-> r.popup,
                          clique_popup |-> IF r.popup THEN lidar_popup_mudanca(botao)
                                           ELSE "nenhum" ]
           /\ IF r.excecao
              THEN /\ pcQ' = "excecao"
                   /\ UNCHANGED <<pos, sucessos, aplicadas, marcado>>
              ELSE /\ pcQ' = pcQ
                   /\ pos' = pos + 1
                   /\ sucessos' = IF r.sucesso THEN sucessos + 1 ELSE sucessos
                   /\ aplicadas' = IF r.sucesso THEN aplicadas \cup {pos + 1} ELSE aplicadas
                   /\ marcado' = IF r.sucesso THEN [marcado EXCEPT ![r.linha] = r.span]
                                 ELSE marcado
    /\ UNCHANGED <<rows, qpt_plano, question_map, retorno>>
    /\ UNCHANGED <<planVars, rotuloVars, apn1Vars, epiVars, normVars, epiAdVars, codVars, runVars>>

\* lines 231-232 and 163-165: the loop is over, Confirmar is clicked (or not
\* found) and the pair is returned
RetornarQPT(clicou) ==
    /\ pcQ = "mapeado"
    /\ pos = Len(qpt_plano)
    /\ retorno' = [ok |-> TRUE, sucessos |-> sucessos, total |-> total_processadas,
                   confirmar |-> clicou]
    /\ pcQ' = "retornou"
    /\ UNCHANGED <<rows, qpt_plano, question_map, pos, total_processadas, sucessos,
                   tentativas, aplicadas, marcado, ultimo>>
    /\ UNCHANGED <<planVars, rotuloVars, apn1Vars, epiVars, normVars, epiAdVars, codVars, runVars>>

NextQPT ==
    \/ ConstruirMapa
    \/ PularEntrada
    \/ ProcessarQuestao
    \/ \E clicou \in BOOLEAN : RetornarQPT(clicou)

SpecQPT == InitQPT /\ [][NextQPT]_vars

---------------------------------------------------------------------------
(* APN-1: preencher on a small form, for the texts of a job *)

\* questions of the runs (c-cedilla U+00E7): one per hazard family, one of no
\* family, one whose Nao radio is not found
LinhasAPN1 ==
    { [ tem_pergunta |-> TRUE, pergunta |-> Chars("Trabalho em altura?"),
        tem_ordem |-> TRUE, id_sim |-> TRUE, id_nao |-> TRUE ],
      [ tem_pergunta |-> TRUE, pergunta |-> Chars("Trabalho sobre o mar?"),
        tem_ordem |-> TRUE, id_sim |-> TRUE, id_nao |-> TRUE ],
      [ tem_pergunta |-> TRUE,
        pergunta |-> Chars(" Entrada em espa") \o <<"U+00E7">> \o Chars("o confinado? "),
        tem_ordem |-> TRUE, id_sim |-> TRUE, id_nao |-> FALSE ],
      [ tem_pergunta |-> TRUE, pergunta |-> Chars("Trabalho noturno?"),
        tem_ordem |-> TRUE, id_sim |-> TRUE, id_nao |-> TRUE ],
      [ tem_pergunta |-> TRUE, pergunta |-> Chars("  "),
        tem_ordem |-> TRUE, id_sim |-> TRUE, id_nao |-> TRUE ] }

InitAPN1 ==
    /\ InitPlano
    /\ QPTParado
    /\ RotuloParado
    /\ EPIParado
    /\ NormParado
    /\ EPIAdParado
    /\ CodParado
    /\ RunParado
    /\ apn1_rows \in Sequencias(LinhasAPN1, MaxPerguntas)
    /\ apn1_contexto = <<>>
    /\ apn1_perguntas = <<>>
    /\ apn1_pos = 0
    /\ apn1_respostas = <<>>
    /\ apn1_sucessos = 0
    /\ apn1_falhas = 0
    /\ pcA = "parado"

\* aplatquente.preencher_questionarios: preencher_apn1(driver, timeout, descricao,
\* caracteristicas) for the texts read from the stage
ChamarAPN1(d, c) ==
    /\ pcA = "parado"
    /\ descricao' = d
    /\ caracteristicas' = c
    /\ pcA' = "inicio"
    /\ UNCHANGED <<EPI_RADIOS_BASE, EPIS_CAT_BASE, QPT_BASE, idx, etapa, plano>>
    /\ UNCHANGED <<apn1_rows, apn1_contexto, apn1_perguntas, apn1_pos, apn1_respostas,
                   apn1_sucessos, apn1_falhas>>
    /\ UNCHANGED <<qptVars, rotuloVars, epiVars, normVars, epiAdVars, codVars, runVars>>

\* APN1Processor.preencher, lines 985-993
PreencherAPN1 ==
    /\ pcA = "inicio"
    /\ apn1_contexto' = normalizar_string(descricao \o <<" ">> \o caracteristicas)
    /\ \E ps \in {coletar_perguntas(apn1_rows)} :
           /\ apn1_perguntas' = ps
           /\ pcA' = IF ps = <<>> THEN "retornou" ELSE "processando"
    /\ UNCHANGED <<apn1_rows, apn1_pos, apn1_respostas, apn1_sucessos, apn1_falhas>>
    /\ UNCHANGED <<planVars, qptVars, rotuloVars, epiVars, normVars, epiAdVars, codVars, runVars>>

\* _processar_perguntas: one question of the loop
ProcessarPergunta(marcou) ==
    /\ pcA = "processando"
    /\ apn1_pos < Len(apn1_perguntas)
    /\ \E r \in {processar_pergunta_individual(apn1_perguntas[apn1_pos + 1],
                                               apn1_contexto, marcou)} :
           /\ apn1_respostas' = Append(apn1_respostas, r.resposta)
           /\ apn1_sucessos' = IF r.sucesso THEN apn1_sucessos + 1 ELSE apn1_sucessos
           /\ apn1_falhas' = IF r.sucesso THEN apn1_falhas ELSE apn1_falhas + 1
    /\ apn1_pos' = apn1_pos + 1
    /\ UNCHANGED <<apn1_rows, apn1_contexto, apn1_perguntas, pcA>>
    /\ UNCHANGED <<planVars, qptVars, rotuloVars, epiVars, normVars, epiAdVars, codVars, runVars>>

\* _processar_perguntas, line 1107: the loop is over
RetornarAPN1 ==
    /\ pcA = "processando"
    /\ apn1_pos = Len(apn1_perguntas)
    /\ pcA' = "retornou"
    /\ UNCHANGED <<apn1_rows, apn1_contexto, apn1_perguntas, apn1_pos, apn1_respostas,
                   apn1_sucessos, apn1_falhas>>
    /\ UNCHANGED <<planVars, qptVars, rotuloVars, epiVars, normVars, epiAdVars, codVars, runVars>>

NextAPN1 ==
    \/ \E d \in Descricoes, c \in Caracteristicas : ChamarAPN1(d, c)
    \/ PreencherAPN1
    \/ \E marcou \in BOOLEAN : ProcessarPergunta(marcou)
    \/ RetornarAPN1

SpecAPN1 == InitAPN1 /\ [][NextAPN1]_vars

---------------------------------------------------------------------------
(* Specification SpecEPI: processar_aba_epi on a plan and on what the form  *)
(* shows and does for each category                                         *)

\* plans handed to processar_aba_epi: plano["epis_cat"] of these contexts
ContextosEPI ==
    { ctx_vazio,
      [ctx_vazio EXCEPT !.tem_chama = TRUE],
      [ctx_vazio EXCEPT !.tem_sobre_o_mar = TRUE],
      [ctx_vazio EXCEPT !.tem_trat_mec = TRUE] }

\* the names of a builder table spelled out as texts
plano_em_texto(p) == [cat \in DOMAIN p |-> {Chars(x) : x \in p[cat]}]

PlanosEPI ==
    {plano_em_texto(regras_epis_cat(c, EPIS_CAT_BASE_literal)) : c \in ContextosEPI}

\* per category, an item every plan expects and one no plan expects
ItemBase ==
    ("Vestimentas" :> "DUPLA PROTECAO AUDITIVA") @@
    ("Oculos" :> "OCULOS SEGURANCA CONTRA IMPACTO") @@
    ("Luvas" :> "LUVA DE PROTECAO CONTRA IMPACTOS MODELO II (3, 4, 3, 3, 'C', 'P')") @@
    ("Protecao Respiratoria" :> "NAO APLICAVEL")

ItemExtra ==
    ("Vestimentas" :> "AVENTAL DE PVC") @@
    ("Oculos" :> "OCULOS ESCUROS") @@
    ("Luvas" :> "LUVA NITRILICA") @@
    ("Protecao Respiratoria" :> "MASCARA SEMIFACIAL")

\* rows a category table can show: an item with blanks around it, the same item
\* in lower case, another item, a blank cell, a row without cells
LinhasEPI(cat) ==
    { [tem_celula |-> TRUE, texto |-> <<" ">> \o Chars(ItemBase[cat]) \o <<" ">>],
      [tem_celula |-> TRUE, texto |-> lower(Chars(ItemBase[cat]))],
      [tem_celula |-> TRUE, texto |-> Chars(ItemExtra[cat])],
      [tem_celula |-> TRUE, texto |-> Chars("  ")],
      [tem_celula |-> FALSE, texto |-> <<>>] }

\* the row of the mandatory equipment
EPIS_OBRIGATORIOS == "EPI^s OBRIGATORIOS (CAPACETE, BOTA, PROT. AURIC. E UNIFORME)"

\* contents of the association dialog of a category: three catalogue rows with
\* nothing ticked, the same with the first ticked, and rows that spell the
\* names differently
ModaisEPI(cat) ==
    { << [rotulo |-> Chars(ItemBase[cat]), marcado |-> FALSE],
         [rotulo |-> Chars(ItemExtra[cat]), marcado |-> FALSE],
         [rotulo |-> Chars(EPIS_OBRIGATORIOS), marcado |-> FALSE] >>,
      << [rotulo |-> Chars(ItemBase[cat]), marcado |-> TRUE],
         [rotulo |-> Chars(ItemExtra[cat]), marcado |-> FALSE],
         [rotulo |-> Chars(EPIS_OBRIGATORIOS), marcado |-> FALSE] >>,
      << [rotulo |-> lower(Chars(ItemBase[cat])) \o Chars(" (CA 1234)"), marcado |-> FALSE],
         [rotulo |-> Chars("PROTETOR SOLAR"), marcado |-> FALSE] >> }

SemModal == <<>>

\* the tables a category can show
TabelasEPI(cat) == UNION {Sequencias(LinhasEPI(cat), n) : n \in 0..MaxObservados}

\* what the form does while items are added to a category; a step that is not
\* reached has one value only
AmbientesEPI(cat) ==
    LET base == [ botao_ok |-> FALSE, abre |-> FALSE, tabela |-> FALSE,
                  modal |-> SemModal, confirmar |-> "erro", fecha |-> TRUE ]
    IN  {base}
        \cup {[base EXCEPT !.botao_ok = TRUE]}
        \cup {[base EXCEPT !.botao_ok = TRUE, !.abre = TRUE, !.confirmar = c, !.fecha = f] :
                 c \in {"ok", "timeout", "erro"}, f \in BOOLEAN}
        \cup {[base EXCEPT !.botao_ok = TRUE, !.abre = TRUE, !.tabela = TRUE,
                           !.modal = m, !.confirmar = c, !.fecha = f] :
                 m \in ModaisEPI(cat), c \in {"ok", "timeout", "erro"}, f \in BOOLEAN}

\* processar_aba_epi is called with the plan
InitEPI ==
    /\ InitPlano
    /\ QPTParado
    /\ RotuloParado
    /\ APN1Parado
    /\ NormParado
    /\ EPIAdParado
    /\ CodParado
    /\ RunParado
    /\ epis_cat_plano \in PlanosEPI
    /\ epi_pos = 0
    /\ epi_info = SemInfoEPI
    /\ epi_ultimo = SemCategoria
    /\ pcE = "inicio"

\* a turn of the loop of processar starts: _coletar_info_categoria; without
\* the information _processar_categoria returns at once
ColetarInfoCategoria ==
    /\ pcE = "inicio"
    /\ epi_pos < Len(CATEGORIAS_EPI)
    /\ \E achou \in BOOLEAN : \E linhas \in TabelasEPI(CATEGORIAS_EPI[epi_pos + 1]) :
         \E info \in {coletar_info_categoria(CATEGORIAS_EPI[epi_pos + 1], achou, linhas)} :
            /\ epi_info' = info
            /\ IF info.ok
               THEN pcE' = "coletada" /\ epi_pos' = epi_pos
               ELSE pcE' = "inicio" /\ epi_pos' = epi_pos + 1
    /\ epi_ultimo' = SemCategoria
    /\ UNCHANGED epis_cat_plano
    /\ UNCHANGED <<planVars, qptVars, rotuloVars, apn1Vars, normVars, epiAdVars, codVars, runVars>>

\* the rest of _processar_categoria: _comparar_com_plano and, when items are
\* missing, _incluir_itens_faltantes
ProcessarCategoria ==
    /\ pcE = "coletada"
    /\ \E amb \in AmbientesEPI(epi_info.nome) :
         \E r \in {processar_categoria(epi_info, epis_cat_plano, amb)} :
            epi_ultimo' = r
    /\ epi_pos' = epi_pos + 1
    /\ pcE' = "inicio"
    /\ UNCHANGED <<epis_cat_plano, epi_info>>
    /\ UNCHANGED <<planVars, qptVars, rotuloVars, apn1Vars, normVars, epiAdVars, codVars, runVars>>

\* processar returns after the last category
RetornarEPI ==
    /\ pcE = "inicio"
    /\ epi_pos = Len(CATEGORIAS_EPI)
    /\ pcE' = "retornou"
    /\ UNCHANGED <<epis_cat_plano, epi_pos, epi_info, epi_ultimo>>
    /\ UNCHANGED <<planVars, qptVars, rotuloVars, apn1Vars, normVars, epiAdVars, codVars, runVars>>

NextEPI ==
    \/ ColetarInfoCategoria
    \/ ProcessarCategoria
    \/ RetornarEPI

SpecEPI == InitEPI /\ [][NextEPI]_vars

---------------------------------------------------------------------------
(* EPI adicional: preencher on the EPI-radio table of a plan and a small form *)

\* the tables handed to preencher_epi_adicional: plano["epi_radios"] of these contexts
ContextosEPIAdicional ==
    { ctx_vazio,
      [ctx_vazio EXCEPT !.tem_altura = TRUE],
      [ctx_vazio EXCEPT !.tem_sobre_o_mar = TRUE],
      [ctx_vazio EXCEPT !.tem_chama = TRUE] }

PlanosEPIAdicional ==
    {regras_epi_radios(c, EPI_RADIOS_BASE_literal) : c \in ContextosEPIAdicional}

\* rows of the form: the ordinals 1, 03, 9 (no plan entry has it) and none; the
\* texts of the plan entries Q001 and Q003, the latter in lower case with a
\* double blank, and a text of no plan entry; a row without its elements and a
\* row without the answer element
LinhasEPIAdicional ==
    { [tem_elementos |-> TRUE, ordem |-> o, pergunta |-> p, tem_resposta |-> TRUE,
       opcoes |-> <<SIM, NAO>>] :
          o \in {Chars("1"), Chars("03"), Chars("9"), <<>>},
          p \in {Chars(EPI_Q001_CINTO[2]), Chars("colete  salva-vidas"),
                 Chars("Outra protecao")} }
    \cup { [tem_elementos |-> FALSE, ordem |-> <<>>, pergunta |-> <<>>, tem_resposta |-> FALSE,
            opcoes |-> <<>>],
           [tem_elementos |-> TRUE, ordem |-> Chars("1"), pergunta |-> Chars(EPI_Q001_CINTO[2]),
            tem_resposta |-> FALSE, opcoes |-> <<>>] }

InitEPIAdicional ==
    /\ InitPlano
    /\ QPTParado
    /\ RotuloParado
    /\ APN1Parado
    /\ EPIParado
    /\ NormParado
    /\ CodParado
    /\ RunParado
    /\ epiad_plano \in PlanosEPIAdicional
    /\ epiad_rows \in Sequencias(LinhasEPIAdicional, MaxLinhas)
    /\ mapa_respostas = <<>>
    /\ epiad_pos = 0
    /\ epiad_respostas = <<>>
    /\ pcD = "inicio"

\* preencher up to line 663: without the container the call ends, otherwise
\* the dictionary of answers is extracted from the plan table
PreencherEPIAdicional ==
    /\ pcD = "inicio"
    /\ \E container \in BOOLEAN :
          IF container
          THEN /\ mapa_respostas' = extrair_mapa_respostas(epiad_plano)
               /\ pcD' = "processando"
          ELSE /\ mapa_respostas' = mapa_respostas
               /\ pcD' = "retornou"
    /\ UNCHANGED <<epiad_plano, epiad_rows, epiad_pos, epiad_respostas>>
    /\ UNCHANGED <<planVars, qptVars, rotuloVars, apn1Vars, epiVars, normVars, codVars, runVars>>

\* one turn of the loop of _processar_questoes_epi
ProcessarQuestaoEPI ==
    /\ pcD = "processando"
    /\ epiad_pos < Len(epiad_rows)
    /\ \E r \in {processar_questao_epi(epiad_rows[epiad_pos + 1], mapa_respostas)} :
          epiad_respostas' = Append(epiad_respostas, r)
    /\ epiad_pos' = epiad_pos + 1
    /\ UNCHANGED <<epiad_plano, epiad_rows, mapa_respostas, pcD>>
    /\ UNCHANGED <<planVars, qptVars, rotuloVars, apn1Vars, epiVars, normVars, codVars, runVars>>

\* the loop is over
ConcluirEPIAdicional ==
    /\ pcD = "processando"
    /\ epiad_pos = Len(epiad_rows)
    /\ pcD' = "retornou"
    /\ UNCHANGED <<epiad_plano, epiad_rows, mapa_respostas, epiad_pos, epiad_respostas>>
    /\ UNCHANGED <<planVars, qptVars, rotuloVars, apn1Vars, epiVars, normVars, codVars, runVars>>

NextEPIAdicional ==
    \/ PreencherEPIAdicional
    \/ ProcessarQuestaoEPI
    \/ ConcluirEPIAdicional

SpecEPIAdicional == InitEPIAdicional /\ [][NextEPIAdicional]_vars

---------------------------------------------------------------------------
(* The two normalization functions, each applied to a text and then to its
   own result.  The texts are drawn from an alphabet with a plain letter, a
   space, a precomposed accented letter, a letter whose upper case is two
   letters, and three marks: U+034F (category Mn, combining class 0),
   U+1B44 (category Mc, class 9) and U+302E (category Mc, class 224). *)

AlfabetoNorm == {"a", " ", "U+00E3", "U+00DF", "U+034F", "U+1B44", "U+302E"}

TextosNorm == UNION {[1..n -> AlfabetoNorm] : n \in 0..MaxTexto} \cup {None}

InitNorm ==
    /\ InitPlano
    /\ QPTParado
    /\ RotuloParado
    /\ APN1Parado
    /\ EPIParado
    /\ EPIAdParado
    /\ CodParado
    /\ RunParado
    /\ norm_entrada \in TextosNorm
    /\ norm_texto = <<>>
    /\ norm_string = <<>>

\* quent2_plano.normalizar_texto on the text, then on what it returned
NormalizarTexto ==
    /\ Len(norm_texto) < 2
    /\ \E s \in {IF norm_texto = <<>> THEN norm_entrada ELSE norm_texto[1]} :
          norm_texto' = Append(norm_texto, normalizar_texto(s))
    /\ UNCHANGED <<planVars, qptVars, rotuloVars, apn1Vars, epiVars, epiAdVars, codVars, runVars>>
    /\ UNCHANGED <<norm_entrada, norm_string>>

\* quent3_preenchimento.normalizar_string on the text, then on what it returned
NormalizarString ==
    /\ Len(norm_string) < 2
    /\ \E s \in {IF norm_string = <<>> THEN norm_entrada ELSE norm_string[1]} :
          norm_string' = Append(norm_string, normalizar_string(s))
    /\ UNCHANGED <<planVars, qptVars, rotuloVars, apn1Vars, epiVars, epiAdVars, codVars, runVars>>
    /\ UNCHANGED <<norm_entrada, norm_texto>>

NextNorm ==
    \/ NormalizarTexto
    \/ NormalizarString

SpecNorm == InitNorm /\ [][NextNorm]_vars

---------------------------------------------------------------------------
(* extrair_digitos_codigo on every short code label *)

\* a letter, ASCII digits, a separator and SUPERSCRIPT TWO, which str.isdigit accepts
AlfabetoCodigo == {"Q", "7", "0", "-", "U+00B2"}

CodigosEntrada == UNION {[1..n -> AlfabetoCodigo] : n \in 0..MaxCodigo}

InitCodigo ==
    /\ InitPlano
    /\ QPTParado
    /\ RotuloParado
    /\ APN1Parado
    /\ EPIParado
    /\ NormParado
    /\ EPIAdParado
    /\ RunParado
    /\ cod_entrada \in CodigosEntrada
    /\ cod_saida = <<>>

\* extrair_digitos_codigo on the label, then on what it returned
ExtrairDigitosCodigo ==
    /\ Len(cod_saida) < 2
    /\ \E s \in {IF cod_saida = <<>> THEN cod_entrada ELSE cod_saida[1]} :
          cod_saida' = Append(cod_saida, extrair_digitos_codigo(s))
    /\ UNCHANGED <<planVars, qptVars, rotuloVars, apn1Vars, epiVars, normVars, epiAdVars, runVars>>
    /\ UNCHANGED cod_entrada

NextCodigo == ExtrairDigitosCodigo

SpecCodigo == InitCodigo /\ [][NextCodigo]_vars

----------------------------------------------------------------------------
(* aplatquente.main: a run over the stage numbers of the command line.      *)
(* historico is the sequence of what the run did: an entry is               *)
(* [ev, idx, nome, texto]: the kind of step, the number of the stage in the *)
(* run, a name (stage number, form, outcome) and a text read from the page. *)

\* is_trabalho_quente with a test for the first word only
is_trabalho_quente_so_trabalho(tipo) ==
    Contains(Chars("TRABALHO"), normalizar_texto(tipo))

\* aplatquente.is_trabalho_quente
is_trabalho_quente(tipo) ==
    Contains(Chars("TRABALHO A QUENTE"), normalizar_texto(tipo))

\* the forms of preencher_questionarios in another order
FORMULARIOS_epi_primeiro ==
    <<"EPI", "Questionario PT", "EPI adicional", "Analise Ambiental", "APN-1">>

\* formularios, lines 332-338
FORMULARIOS ==
    <<"Questionario PT", "EPI adicional", "Analise Ambiental", "APN-1", "EPI">>

Evento(ev, i, nome, texto) == [ev |-> ev, idx |-> i, nome |-> nome, texto |-> texto]

\* stage numbers of the command line
NumerosEtapa == {"2/1015/2024", "2/1016/2024"}

\* --valor has nargs="+": at least one stage number
ValoresRun == Sequencias(NumerosEtapa, MaxEtapas) \ {<<>>}

\* texts the work-type combo can show; the empty text is what
\* coletar_tipo_trabalho returns when the combo is not found
TiposTrabalho ==
    { Chars("Trabalho a Quente"), Chars("Trabalho a Frio"),
      Chars("TRABALHO A QUENTE - ESPECIAL"), <<>> }

\* main is entered: the driver was created
InitRun ==
    /\ InitPlano
    /\ QPTParado
    /\ RotuloParado
    /\ APN1Parado
    /\ EPIParado
    /\ NormParado
    /\ EPIAdParado
    /\ CodParado
    /\ args_valor \in ValoresRun
    /\ run_idx = 0
    /\ pcM = "login"
    /\ tipo_trabalho = <<>>
    /\ form_pos = 0
    /\ form_erros = {}
    /\ historico = <<>>
    /\ navegador = "aberto"
    /\ excecao = FALSE

\* main, lines 486-491: attempt_auto_login returns True ("ok") or False
\* ("falha"), or it or wait_for_document_ready raises ("erro")
Login ==
    /\ pcM = "login"
    /\ \E r \in {"ok", "falha", "erro"} :
          /\ historico' = Append(historico, Evento("login", 0, r, <<>>))
          /\ pcM' = IF r = "ok" THEN "laco" ELSE "finally"
          /\ excecao' = (r = "erro")
    /\ UNCHANGED <<args_valor, run_idx, tipo_trabalho, form_pos, form_erros, navegador>>
    /\ UNCHANGED <<planVars, uiVarsSemRun>>

\* main, line 495, and processar_etapa, lines 222-227: the next stage number is
\* taken; from the second stage on fechar_modal_etapa runs, which catches its
\* timeout only
IniciarEtapa ==
    /\ pcM = "laco"
    /\ run_idx < Len(args_valor)
    /\ run_idx' = run_idx + 1
    /\ \E r \in (IF run_idx >= 1 THEN {"ok", "erro"} ELSE {"ok"}) :
          /\ historico' = Append(historico, Evento("etapa", run_idx + 1, args_valor[run_idx + 1], <<>>))
          /\ pcM' = IF r = "ok" THEN "abrir" ELSE "finally"
          /\ excecao' = (r = "erro")
    /\ UNCHANGED <<args_valor, tipo_trabalho, form_pos, form_erros, navegador>>
    /\ UNCHANGED <<planVars, uiVarsSemRun>>

\* processar_etapa, lines 229-231, and abrir_etapa: perform_search returns
\* ("ok"), raises TimeoutException ("timeout", caught at line 273) or raises
\* anything else ("erro"), such as the StaleElementReferenceException that
\* click_first_search_result re-raises at its third attempt
AbrirEtapa ==
    /\ pcM = "abrir"
    /\ \E r \in {"ok", "timeout", "erro"} :
          /\ historico' = Append(historico, Evento("abrir", run_idx, r, <<>>))
          /\ pcM' = CASE r = "ok" -> "navegar" [] r = "timeout" -> "laco" [] OTHER -> "finally"
          /\ excecao' = (r = "erro")
    /\ UNCHANGED <<args_valor, run_idx, tipo_trabalho, form_pos, form_erros, navegador>>
    /\ UNCHANGED <<planVars, uiVarsSemRun>>

\* processar_etapa, lines 233-235, and navegar_para_dados_etapa: goto_tab
\* returns, raises TimeoutException (caught) or raises anything else
NavegarParaDadosEtapa ==
    /\ pcM = "navegar"
    /\ \E r \in {"ok", "timeout", "erro"} :
          /\ historico' = Append(historico, Evento("navegar", run_idx, r, <<>>))
          /\ pcM' = CASE r = "ok" -> "validar" [] r = "timeout" -> "laco" [] OTHER -> "finally"
          /\ excecao' = (r = "erro")
    /\ UNCHANGED <<args_valor, run_idx, tipo_trabalho, form_pos, form_erros, navegador>>
    /\ UNCHANGED <<planVars, uiVarsSemRun>>

\* processar_etapa, lines 237-239, and validar_tipo_trabalho
ValidarTipoTrabalho ==
    /\ pcM = "validar"
    /\ \E t \in TiposTrabalho :
          /\ tipo_trabalho' = t
          /\ historico' = Append(historico, Evento("tipo", run_idx, "lido", t))
          /\ pcM' = IF is_trabalho_quente(t) THEN "plano" ELSE "laco"
    /\ UNCHANGED <<args_valor, run_idx, form_pos, form_erros, navegador, excecao>>
    /\ UNCHANGED <<planVars, uiVarsSemRun>>

\* processar_etapa, lines 241-245, and executar_plano_completo up to the call
\* of preencher_questionarios: the texts are collected and the plan generated
ExecutarPlanoCompleto ==
    /\ pcM = "plano"
    /\ historico' = Append(historico, Evento("plano", run_idx, "gerado", <<>>))
    /\ form_pos' = 0
    /\ form_erros' = {}
    /\ pcM' = "formularios"
    /\ UNCHANGED <<args_valor, run_idx, tipo_trabalho, navegador, excecao>>
    /\ UNCHANGED <<planVars, uiVarsSemRun>>

\* preencher_questionarios, lines 340-344: one turn of the loop; the form is
\* filled ("ok") or its filling raises ("erro", caught and printed)
PreencherFormulario ==
    /\ pcM = "formularios"
    /\ form_pos < Len(FORMULARIOS)
    /\ \E r \in {"ok", "erro"} :
          /\ historico' = Append(historico,
                                 Evento("formulario", run_idx, FORMULARIOS[form_pos + 1], <<>>))
          /\ form_erros' = IF r = "erro" THEN form_erros \cup {FORMULARIOS[form_pos + 1]}
                           ELSE form_erros
    /\ form_pos' = form_pos + 1
    /\ pcM' = IF form_pos + 1 = Len(FORMULARIOS) THEN "rodape" ELSE "formularios"
    /\ UNCHANGED <<args_valor, run_idx, tipo_trabalho, navegador, excecao>>
    /\ UNCHANGED <<planVars, uiVarsSemRun>>

\* processar_etapa, lines 247-250, and confirmar_etapa: the footer button is
\* clicked ("clicou"), not found ("ausente"), or the click raises ("erro", caught)
ConfirmarEtapa ==
    /\ pcM = "rodape"
    /\ \E r \in {"clicou", "ausente", "erro"} :
          historico' = Append(historico, Evento("rodape", run_idx, r, <<>>))
    /\ form_pos' = 0
    /\ form_erros' = {}
    /\ pcM' = "laco"
    /\ UNCHANGED <<args_valor, run_idx, tipo_trabalho, navegador, excecao>>
    /\ UNCHANGED <<planVars, uiVarsSemRun>>

\* main, lines 497-498: the loop is over
ConcluirProcesso ==
    /\ pcM = "laco"
    /\ run_idx = Len(args_valor)
    /\ pcM' = "finally"
    /\ UNCHANGED <<args_valor, run_idx, tipo_trabalho, form_pos, form_erros, historico,
                   navegador, excecao>>
    /\ UNCHANGED <<planVars, uiVarsSemRun>>

\* main, lines 500-506: the finally clause waits for ENTER and calls driver.quit
FecharNavegador ==
    /\ pcM = "finally"
    /\ navegador' = "fechado"
    /\ pcM' = "fim"
    /\ UNCHANGED <<args_valor, run_idx, tipo_trabalho, form_pos, form_erros, historico, excecao>>
    /\ UNCHANGED <<planVars, uiVarsSemRun>>

NextRun ==
    \/ Login
    \/ IniciarEtapa
    \/ AbrirEtapa
    \/ NavegarParaDadosEtapa
    \/ ValidarTipoTrabalho
    \/ ExecutarPlanoCompleto
    \/ PreencherFormulario
    \/ ConfirmarEtapa
    \/ ConcluirProcesso
    \/ FecharNavegador

SpecRun == InitRun /\ [][NextRun]_vars

\* every step of main is a step of one sequential program: it goes on until
\* driver.quit
SpecRunJusta == SpecRun /\ WF_vars(NextRun)

---------------------------------------------------------------------------
(* Properties of the table builders and of plan generation *)

NenhumFlag(ctx) == \A f \in Flags : ~ctx[f]

\* every item name the categorized-equipment builder knows
ItensEPI ==
    UNION {EPIS_CAT_BASE_literal[cat] : cat \in DOMAIN EPIS_CAT_BASE_literal}
    \cup ITENS_ALTURA \cup ITENS_SOBRE_O_MAR
    \cup {"OCULOS SEGURANCA CONTRA IMPACTO", "LUVA ARAMIDA", "LUVA DE RASPA", "BALACLAVA",
          "AVENTAL DE RASPA", "CAPUZ", "MANGA DE RASPA", "PERNEIRA DE RASPA",
          "VESTIM. COMPLETA DE RASPA", "PECA SEMI-FACIAL FILTRANTE 2", "MASCARA SOLDADOR",
          "LENTE DE ACORDO COM AMPERAGEM DA MAQUINA", "OCULOS MACARIQUEIRO",
          "LUVA ANTI-VIBRACAO"}

ItemSemRisco(cat) ==
    CASE cat = "Oculos" -> {"OCULOS SEGURANCA CONTRA IMPACTO"}
      [] cat = "Protecao Respiratoria" -> {"NAO APLICAVEL"}
      [] OTHER -> {}

C7_BasesSemRisco_original ==
    (etapa = "planejada" /\ NenhumFlag(plano.contexto)) =>
        /\ plano.epi_radios = EPI_RADIOS_BASE
        /\ plano.qpt = QPT_BASE
        /\ plano.apn1 = [q \in CODIGOS_APN1 |-> NAO]

\* C7 amended: with no flag true the EPI-radio table is EPI_RADIOS_BASE except that
\* Protetor Facial is 'Nao' (the base says 'Sim'); the QPT table is exactly QPT_BASE
\* and the APN-1 table is Q001..Q020 all 'Nao'.
C7_BasesSemRisco ==
    (etapa = "planejada" /\ NenhumFlag(plano.contexto)) =>
        /\ plano.epi_radios = [EPI_RADIOS_BASE EXCEPT ![EPI_Q006_PROT_FACIAL] = NAO]
        /\ EPI_RADIOS_BASE[EPI_Q006_PROT_FACIAL] = SIM
        /\ plano.qpt = QPT_BASE
        /\ plano.apn1 = [q \in CODIGOS_APN1 |-> NAO]

C7_Witness ==
    /\ etapa = "planejada"
    /\ descricao = <<>>
    /\ caracteristicas = <<>>
    /\ NenhumFlag(plano.contexto)

C9_Totalidade ==
    etapa = "planejada" =>
        /\ DOMAIN plano.epi_radios = DOMAIN EPI_RADIOS_BASE
        /\ \A k \in DOMAIN EPI_RADIOS_BASE : plano.epi_radios[k] \in Respostas
        /\ DOMAIN plano.qpt = DOMAIN QPT_BASE
        /\ \A k \in DOMAIN QPT_BASE : plano.qpt[k] \in Respostas
        /\ DOMAIN plano.apn1 = CODIGOS_APN1
        /\ \A k \in CODIGOS_APN1 : plano.apn1[k] \in Respostas
        /\ DOMAIN plano.epis_cat = DOMAIN EPIS_CAT_BASE
        /\ \A cat \in DOMAIN EPIS_CAT_BASE : plano.epis_cat[cat] \subseteq ItensEPI

C9_Witness ==
    /\ etapa = "planejada"
    /\ \A f \in Flags : plano.contexto[f]
    /\ plano.qpt[QPT_Q013_INIBIR_SENSORES] = SIM

\* the plan of a job when the module tables hold their initial contents
PlanoEsperado(d, c) ==
    LET ctx == montar_contexto_from_textos(d, c)
    IN  [ contexto   |-> ctx,
          epi_radios |-> regras_epi_radios(ctx, EPI_RADIOS_BASE_literal),
          epis_cat   |-> regras_epis_cat(ctx, EPIS_CAT_BASE_literal),
          qpt        |-> regras_qpt(ctx, QPT_BASE_literal),
          apn1       |-> montar_base_apn1(ctx) ]

\* C10: after any sequence of plan generations the module tables hold their initial
\* contents, and the plan of the current job is the one its texts give on the
\* initial tables, whatever was generated before.
C10_SemVazamento ==
    /\ EPI_RADIOS_BASE = EPI_RADIOS_BASE_literal
    /\ EPIS_CAT_BASE = EPIS_CAT_BASE_literal
    /\ QPT_BASE = QPT_BASE_literal
    /\ etapa = "planejada" => plano = PlanoEsperado(descricao, caracteristicas)

C10_Witness ==
    /\ etapa = "planejada"
    /\ idx = MaxEtapas
    /\ descricao = Chars("OXICORTE SOBRE O MAR")
    /\ "OCULOS MACARIQUEIRO" \in plano.epis_cat["Oculos"]

---------------------------------------------------------------------------
(* Properties of the Questionario PT processor *)

\* the rows that are live questions: both elements present and a text that is
\* not blank; with each its normalized code and text
Questoes == {i \in 1..Len(rows) : rows[i].tem_elementos /\ normalizar_string(rows[i].pergunta) # <<>>}

MesmoTexto(i, e) == normalizar_string(rows[i].pergunta) = normalizar_string(e.texto)

MesmoCodigo(i, e) == extrair_digitos_codigo(rows[i].ordem) = extrair_digitos_codigo(e.codigo)

\* C2: the resolver returns a live question with the normalized code and text of
\* the plan key when there is one; otherwise the first live question, in document
\* order, with the normalized text of the key; and nothing exactly when no live
\* question has that normalized text.
C2_Resolucao ==
    pcQ = "resolvida" =>
        LET e == qpt_plano[1]
            exatas == {i \in Questoes : MesmoCodigo(i, e) /\ MesmoTexto(i, e)}
            textuais == {i \in Questoes : MesmoTexto(i, e)}
        IN  /\ exatas # {} => ultimo.linha \in exatas
            /\ (exatas = {} /\ textuais # {}) => ultimo.linha = Minimo(textuais)
            /\ ultimo.linha = 0 <=> textuais = {}

\* two live questions share the text of the key, none has its code, and the
\* resolver answered with the first
C2_Witness ==
    /\ pcQ = "resolvida"
    /\ Len(rows) = 2
    /\ Questoes = {1, 2}
    /\ MesmoTexto(1, qpt_plano[1]) /\ MesmoTexto(2, qpt_plano[1])
    /\ rows[1].pergunta # rows[2].pergunta
    /\ ~MesmoCodigo(1, qpt_plano[1]) /\ ~MesmoCodigo(2, qpt_plano[1])
    /\ ultimo.linha = 1

\* C16: when more than one live question has the normalized text of the plan
\* entry and none has its code as well, the resolver returns the first of them in
\* document order and prints the warning of several questions for the text;
\* when exactly one live question has that text, no warning is printed.
C16_Ambiguidade ==
    pcQ = "resolvida" =>
        LET e == qpt_plano[1]
            exatas == {i \in Questoes : MesmoCodigo(i, e) /\ MesmoTexto(i, e)}
            textuais == {i \in Questoes : MesmoTexto(i, e)}
        IN  /\ (exatas = {} /\ Cardinality(textuais) > 1) =>
                  /\ ultimo.linha = Minimo(textuais)
                  /\ ultimo.aviso
            /\ Cardinality(textuais) = 1 => ~ultimo.aviso

\* two live questions with different codes, neither the code of the key, share
\* its text: the first is returned with the warning
C16_Witness ==
    /\ pcQ = "resolvida"
    /\ Questoes = {1, 2}
    /\ MesmoTexto(1, qpt_plano[1]) /\ MesmoTexto(2, qpt_plano[1])
    /\ ~MesmoCodigo(1, qpt_plano[1]) /\ ~MesmoCodigo(2, qpt_plano[1])
    /\ rows[1].ordem # rows[2].ordem
    /\ ultimo.linha = 1
    /\ ultimo.aviso

\* C23: the code extracted from a label is the digits of the label, in order,
\* after as many zeros as bring it to three characters; 'Q7', '007' and '7' give
\* '007'; a label without a digit gives the empty code; and extracting the code
\* of an extracted code gives it back.
C23_Digitos ==
    cod_saida # <<>> =>
        LET digitos == SelectSeq(cod_entrada, isdigit)
            codigo == cod_saida[1]
            zeros == Len(codigo) - Len(digitos)
        IN  /\ digitos = <<>> => codigo = <<>>
            /\ digitos # <<>> =>
                  /\ Len(codigo) = IF Len(digitos) < 3 THEN 3 ELSE Len(digitos)
                  /\ \A i \in 1..zeros : codigo[i] = "0"
                  /\ SubSeq(codigo, zeros + 1, Len(codigo)) = digitos
            /\ cod_entrada \in {Chars("Q7"), Chars("007"), Chars("7")} => codigo = Chars("007")
            /\ Len(cod_saida) = 2 => cod_saida[2] = codigo

\* 'Q7' gives '007', and '007' gives '007' again
C23_Witness ==
    /\ cod_entrada = Chars("Q7")
    /\ cod_saida = <<Chars("007"), Chars("007")>>

\* C30: when several live rows have the same normalized code and text, the
\* index by code and text keeps the last of them in document order, so a key
\* with that code and text resolves to the last duplicate, while a key with that
\* text and a code of no row with it resolves through the text to the first.
C30_UltimaDuplicata ==
    /\ pcQ \in {"mapeado", "resolvida"} =>
          \A i \in Questoes :
              LET k == <<extrair_digitos_codigo(rows[i].ordem),
                         normalizar_string(rows[i].pergunta)>>
                  iguais == {j \in Questoes :
                                <<extrair_digitos_codigo(rows[j].ordem),
                                  normalizar_string(rows[j].pergunta)>> = k}
              IN  /\ k \in DOMAIN question_map.by_code
                  /\ question_map.by_code[k].row = Maximo(iguais)
                  /\ question_map.by_text[k[2]][1].row
                        = Minimo({j \in Questoes :
                                    normalizar_string(rows[j].pergunta) = k[2]})
    /\ pcQ = "resolvida" =>
          LET e == qpt_plano[1]
              exatas == {i \in Questoes : MesmoCodigo(i, e) /\ MesmoTexto(i, e)}
              textuais == {i \in Questoes : MesmoTexto(i, e)}
          IN  /\ exatas # {} => ultimo.linha = Maximo(exatas)
              /\ (exatas = {} /\ textuais # {}) => ultimo.linha = Minimo(textuais)

\* two live questions have the code and the text of the key: the second is returned
C30_Witness ==
    /\ pcQ = "resolvida"
    /\ Questoes = {1, 2}
    /\ \A i \in {1, 2} : MesmoCodigo(i, qpt_plano[1]) /\ MesmoTexto(i, qpt_plano[1])
    /\ question_map.by_text[normalizar_string(qpt_plano[1].texto)][1].row = 1
    /\ ultimo.linha = 2
    /\ ~ultimo.aviso

\* C28: the popup of the change question is handled only in the step in which
\* the change question was found and its option 'Nao' was selected with success;
\* never for another question, for a selected option other than 'Nao', or for a
\* marking that failed; and whatever handling the popup does (click, no button,
\* error), the entry stays a success and the loop goes on.
C28_PopupMudanca ==
    ultimo.entrada # 0 =>
        /\ ultimo.clique_popup # "nenhum" <=> ultimo.popup
        /\ ultimo.popup =>
              /\ ultimo.sucesso
              /\ ultimo.linha \in Questoes
              /\ Contains(normalizar_string(TEXTO_MUDANCA),
                          normalizar_string(rows[ultimo.linha].pergunta))
              /\ ultimo.span \in 1..Len(rows[ultimo.linha].opcoes)
              /\ normalizar_string(rows[ultimo.linha].opcoes[ultimo.span]) = Chars("NAO")
              /\ marcado[ultimo.linha] = ultimo.span
              /\ pcQ # "excecao"
              /\ ultimo.entrada \in aplicadas
              /\ pos >= ultimo.entrada

\* handling the popup of the change question, answered 'Nao', raised an error and
\* the entry counts as a success
C28_Witness ==
    /\ ultimo.entrada # 0
    /\ ultimo.popup
    /\ ultimo.clique_popup = "erro"
    /\ qpt_plano[ultimo.entrada].resposta = NAO
    /\ ultimo.sucesso
    /\ sucessos = 1
    /\ pcQ = "retornou"

\* C3: a label that normalizes to exactly NAO matches the target 'Nao' and never
\* the target 'NA'; a label that normalizes to a text containing NAO SE APLICA or
\* NAO APLICAVEL matches the target 'NA' and never the target 'Nao'; a label
\* matches the target 'Sim' only when it normalizes to exactly SIM.
C3_Rotulos ==
    rotulo_corresponde # "?" =>
        LET l == normalizar_string(rotulo_texto)
            nao_se_aplica == \/ Contains(Chars("NAO SE APLICA"), l)
                             \/ Contains(Chars("NAO APLICAVEL"), l)
        IN  /\ (l = Chars("NAO") /\ rotulo_alvo = NAO) => rotulo_corresponde = "sim"
            /\ (l = Chars("NAO") /\ rotulo_alvo = NA) => rotulo_corresponde = "nao"
            /\ (nao_se_aplica /\ rotulo_alvo = NA) => rotulo_corresponde = "sim"
            /\ (nao_se_aplica /\ rotulo_alvo = NAO) => rotulo_corresponde = "nao"
            /\ (rotulo_alvo = SIM /\ rotulo_corresponde = "sim") => l = Chars("SIM")

\* the label "  Nao " was compared with the target 'NA' and rejected
C3_Witness ==
    /\ rotulo_corresponde = "nao"
    /\ rotulo_texto = Chars("  ") \o NAO \o Chars(" ")
    /\ rotulo_alvo = NA

\* the plan entries that carry an answer
ComResposta == {i \in 1..Len(qpt_plano) : ~SemResposta(qpt_plano[i])}

\* C5 as stated: whatever fails on one entry, when preencher is over every entry
\* with an answer was tried exactly once and the pair (successes, total) was
\* returned, total counting the entries with an answer and successes the entries
\* whose answer was applied.
C5_TodasTentadas ==
    pcQ \in {"retornou", "excecao"} =>
        /\ \A i \in ComResposta : tentativas[i] = 1
        /\ retorno.ok
        /\ retorno.total = Cardinality(ComResposta)
        /\ retorno.sucessos = Cardinality(aplicadas)

---------------------------------------------------------------------------
(* Properties of the APN-1 processor *)

\* the classifier flags of the hazard families the APN-1 questions ask about:
\* confined space, height or rope access, over water, open flame, CO2-protected,
\* pressurized, water-jetting, moving parts
FlagsAPN1 ==
    {"tem_espaco_confinado", "tem_altura", "tem_sobre_o_mar", "tem_chama", "tem_co2",
     "tem_pressurizado", "tem_hidrojato", "tem_partes_moveis"}

\* C1 as stated: for every question processed whose text falls in a hazard family
\* (by the phrases of the classifier), the answer is 'Sim' exactly when the
\* context the classifier computes for the texts of the job has the flag of that
\* family true, and 'Nao' otherwise.
C1_RespostaPeloContexto ==
    \A i \in 1..Len(apn1_respostas) :
        LET familia == montar_contexto_from_textos(apn1_perguntas[i].texto, <<>>)
            ctx == montar_contexto_from_textos(descricao, caracteristicas)
        IN  \A f \in FlagsAPN1 :
                familia[f] => /\ apn1_respostas[i] \in {SIM, NAO}
                              /\ apn1_respostas[i] = SIM <=> ctx[f]

---------------------------------------------------------------------------
(* C4 *)

\* what the plan expects for the category compared last and what was observed
EsperadosEPI == epis_cat_plano[epi_info.nome]
ObservadosEPI == ConjuntoDe(epi_info.itens_atuais)

\* C4: for every category compared, the items handed to the add routine are
\* exactly the expected items that were not observed, the items looked up in
\* the dialog are those or none, the excess is the observed items that were not
\* expected and is only computed: no remove action is ever issued on the form.
C4_SoFaltantes ==
    /\ "remover" \notin epi_ultimo.acoes
    /\ epi_ultimo.coletou =>
          /\ epi_ultimo.incluir = EsperadosEPI \ ObservadosEPI
          /\ epi_ultimo.procurados \in {{}, EsperadosEPI \ ObservadosEPI}
          /\ epi_ultimo.resultado.excedentes = ObservadosEPI \ EsperadosEPI
    /\ ~epi_ultimo.coletou => epi_ultimo.incluir = {} /\ epi_ultimo.acoes = {}

\* a category whose table shows one expected item and one that is not expected,
\* and lacks another expected item, which is looked up and ticked in the dialog
C4_Witness ==
    /\ epi_ultimo.coletou
    /\ EsperadosEPI \cap ObservadosEPI # {}
    /\ EsperadosEPI \ ObservadosEPI # {}
    /\ ObservadosEPI \ EsperadosEPI # {}
    /\ epi_ultimo.procurados = EsperadosEPI \ ObservadosEPI
    /\ epi_ultimo.marcadas # {}
    /\ "confirmar" \in epi_ultimo.acoes

---------------------------------------------------------------------------
(* Properties of each table builder over every context *)

SimSse(valor, gatilho) == valor = (IF gatilho THEN SIM ELSE NAO)

\* C13: in the EPI-radio table, Cinto de Seguranca is 'Sim' if and only if the
\* context has height, rope access or over water; Colete Salva-vidas is 'Sim'
\* if and only if the context is over water; Protetor Facial is 'Sim' when one
\* of the eye-hazard flags holds and 'Nao' otherwise; the three other items
\* keep their base answer.
C13_EpiRadios ==
    etapa = "planejada" =>
        LET ctx == plano.contexto
            t   == plano.epi_radios
        IN  /\ t[EPI_Q001_CINTO] = SIM
                  <=> (ctx.tem_altura \/ ctx.tem_acesso_cordas \/ ctx.tem_sobre_o_mar)
            /\ t[EPI_Q003_COLETE] = SIM <=> ctx.tem_sobre_o_mar
            /\ SimSse(t[EPI_Q006_PROT_FACIAL],
                      \/ ctx.tem_chama \/ ctx.tem_trat_mec \/ ctx.tem_agulheiro
                      \/ ctx.tem_lix_pneum \/ ctx.tem_lixadeira \/ ctx.tem_corte
                      \/ ctx.tem_serra_sabre)
            /\ \A k \in {EPI_Q002_VENT, EPI_Q004_ILUM, EPI_Q005_DPA} :
                  t[k] = EPI_RADIOS_BASE_literal[k]

\* over water only, with the grinder as the single eye hazard
C13_Witness ==
    /\ etapa = "planejada"
    /\ plano.contexto.tem_sobre_o_mar
    /\ ~plano.contexto.tem_altura /\ ~plano.contexto.tem_acesso_cordas
    /\ plano.contexto.tem_lixadeira /\ ~plano.contexto.tem_chama
    /\ plano.epi_radios[EPI_Q001_CINTO] = SIM
    /\ plano.epi_radios[EPI_Q003_COLETE] = SIM
    /\ plano.epi_radios[EPI_Q006_PROT_FACIAL] = SIM

NaSenaoSim(valor, gatilho) == valor = (IF gatilho THEN SIM ELSE NA)

\* the six entries of the questionnaire table that depend on the context
QPT_SOBREPOSTAS ==
    {QPT_Q005_INSPECOES, QPT_Q007_MANG_AR, QPT_Q009_FAGULHAS, QPT_Q011_TAMPONAMENTOS,
     QPT_Q013_INIBIR_SENSORES, QPT_Q014_OBSERVADOR}

\* C14: in the questionnaire table each of the six overridden entries is 'Sim'
\* when its trigger holds and 'NA' otherwise, never 'Nao': inspections on flame
\* or electrical, air hose on pneumatic, mechanical treatment, needle scaler or
\* pneumatic sander, spark containment, capping and observer on flame, sensor
\* inhibition on flame and CO2 together; every other entry keeps its base
\* answer.
C14_Qpt ==
    etapa = "planejada" =>
        LET ctx == plano.contexto
            t   == plano.qpt
        IN  /\ NaSenaoSim(t[QPT_Q005_INSPECOES], ctx.tem_chama \/ ctx.tem_eletrico)
            /\ NaSenaoSim(t[QPT_Q007_MANG_AR],
                          \/ ctx.tem_pneumatico \/ ctx.tem_trat_mec
                          \/ ctx.tem_agulheiro \/ ctx.tem_lix_pneum)
            /\ NaSenaoSim(t[QPT_Q009_FAGULHAS], ctx.tem_chama)
            /\ NaSenaoSim(t[QPT_Q011_TAMPONAMENTOS], ctx.tem_chama)
            /\ NaSenaoSim(t[QPT_Q014_OBSERVADOR], ctx.tem_chama)
            /\ NaSenaoSim(t[QPT_Q013_INIBIR_SENSORES], ctx.tem_chama /\ ctx.tem_co2)
            /\ \A k \in QPT_SOBREPOSTAS : t[k] # NAO
            /\ \A k \in DOMAIN QPT_BASE_literal \ QPT_SOBREPOSTAS : t[k] = QPT_BASE_literal[k]

\* flame without CO2, and CO2 without flame: sensor inhibition stays 'NA'
C14_Witness ==
    /\ etapa = "planejada"
    /\ plano.contexto.tem_chama # plano.contexto.tem_co2
    /\ plano.contexto.tem_chama => plano.qpt[QPT_Q005_INSPECOES] = SIM
    /\ plano.qpt[QPT_Q013_INIBIR_SENSORES] = NA

\* the entry of the APN-1 table each trigger answers
GatilhoAPN1(q, ctx) ==
    CASE q = "Q006" -> ctx.tem_espaco_confinado
      [] q = "Q007" -> ctx.tem_altura \/ ctx.tem_acesso_cordas
      [] q = "Q008" -> ctx.tem_sobre_o_mar
      [] q = "Q010" -> ctx.tem_chama
      [] q = "Q013" -> ctx.tem_pressurizado
      [] q = "Q016" -> ctx.tem_hidrojato
      [] q = "Q017" -> ctx.tem_partes_moveis
      [] q = "Q019" -> ctx.tem_co2
      [] OTHER -> FALSE

\* C15: the APN-1 table has exactly the entries Q001..Q020; Q006, Q007, Q008,
\* Q010, Q013, Q016, Q017 and Q019 are 'Sim' if and only if their trigger holds
\* (confined space, height or rope access, over water, flame, pressurized,
\* water jetting, moving parts, CO2) and 'Nao' otherwise; the twelve other
\* entries are 'Nao' in every context.
C15_Apn1 ==
    etapa = "planejada" =>
        /\ DOMAIN plano.apn1 = CODIGOS_APN1
        /\ Cardinality(DOMAIN plano.apn1) = 20
        /\ \A q \in CODIGOS_APN1 : SimSse(plano.apn1[q], GatilhoAPN1(q, plano.contexto))
        /\ \A q \in CODIGOS_APN1 \ {"Q006", "Q007", "Q008", "Q010", "Q013", "Q016", "Q017", "Q019"} :
              plano.apn1[q] = NAO

\* rope access without the height flag, no confined space
C15_Witness ==
    /\ etapa = "planejada"
    /\ plano.contexto.tem_acesso_cordas /\ ~plano.contexto.tem_altura
    /\ ~plano.contexto.tem_espaco_confinado
    /\ plano.apn1["Q007"] = SIM
    /\ plano.apn1["Q006"] = NAO
    /\ plano.apn1["Q020"] = NAO

\* C21: the two builders agree on the eye hazard: for every context the
\* EPI-radio table answers Protetor Facial with 'Sim' exactly when the equipment
\* table keeps the base eyewear, and with 'Nao' exactly when the base eyewear
\* was replaced by the impact-only glasses.
C21_MesmoHazardOlhos ==
    etapa = "planejada" =>
        /\ plano.epi_radios[EPI_Q006_PROT_FACIAL] = SIM
              <=> EPIS_CAT_BASE_literal["Oculos"] \subseteq plano.epis_cat["Oculos"]
        /\ plano.epi_radios[EPI_Q006_PROT_FACIAL] = NAO
              <=> /\ "OCULOS SEGURANCA CONTRA IMPACTO" \in plano.epis_cat["Oculos"]
                  /\ EPIS_CAT_BASE_literal["Oculos"] \cap plano.epis_cat["Oculos"] = {}

\* the sabre saw as the only hazard: face protection and the base eyewear
C21_Witness ==
    /\ etapa = "planejada"
    /\ plano.contexto.tem_serra_sabre
    /\ \A f \in Flags \ {"tem_serra_sabre"} : ~plano.contexto[f]
    /\ plano.epi_radios[EPI_Q006_PROT_FACIAL] = SIM
    /\ plano.epis_cat["Oculos"] = EPIS_CAT_BASE_literal["Oculos"]

---------------------------------------------------------------------------
(* Properties of the classifier *)

\* the phrases of each flag, in the normalized form the haystack has
FrasesDoFlag(f) ==
    CASE f = "tem_espaco_confinado" ->
             {"ESPACO CONFINADO", "INTERIOR DE ESPACO", "ESPACO CONFINADO -", "DENTRO DE",
              "INTERIOR DO"}
      [] f = "tem_altura" ->
             {"ALTURA", "ACESSO POR CORDAS", "CORDAS", "NR-35", "TRABALHO EM ALTURA"}
      [] f = "tem_acesso_cordas" -> {"ACESSO POR CORDAS"}
      [] f = "tem_sobre_o_mar" -> {"SOBRE O MAR"}
      [] f = "tem_chama" -> {"CHAMA ABERTA", "ESMERILHADEIRA", "OXICORTE", "SOLDA"}
      [] f = "tem_oxicorte" -> {"OXICORTE"}
      [] f = "tem_solda" -> {"SOLDA"}
      [] f = "tem_co2" ->
             {"AMBIENTES PROTEGIDOS POR CO2", "PROTEGIDO POR SISTEMA DE CO2",
              "PROTEGIDOS POR CO2", "PROTEGIDO POR CO2"}
      [] f = "tem_trat_mec" -> {"TRATAMENTO MECANICO"}
      [] f = "tem_agulheiro" -> {"AGULHEIRO"}
      [] f = "tem_lix_pneum" -> {"LIXADEIRA PNEUMATIC"}
      [] f = "tem_lixadeira" -> {"LIXADEIRA"}
      [] f = "tem_pneumatico" -> {"PNEUMATIC"}
      [] f = "tem_eletrico" -> {"ELETRIC"}
      [] f = "tem_corte" -> {"CORTE"}
      [] f = "tem_serra_sabre" -> {"SERRA SABRE"}
      [] f = "tem_pressurizado" -> {"PRESSURIZADO"}
      [] f = "tem_hidrojato" -> {"HIDROJATO", "HIDROJATEAMENTO"}
      [] f = "tem_partes_moveis" -> {"PARTES MOVEIS"}

\* one of the flag's phrases occurs in the haystack
OcorreFrase(f, texto) == \E frase \in FrasesDoFlag(f) : Contains(Chars(frase), texto)

\* C12: for every pair of job texts, empty and absent ones included, the
\* classifier returns a context with the same fixed set of flags, each a
\* boolean; a flag is true only if one of its phrases occurs in the haystack,
\* and when the haystack holds none of the phrases every flag is false.
C12_Classificador ==
    etapa = "planejada" =>
        /\ DOMAIN plano.contexto = Flags \cup {"texto_full"}
        /\ \A f \in Flags : plano.contexto[f] \in BOOLEAN
        /\ \A f \in Flags : plano.contexto[f] => OcorreFrase(f, plano.contexto.texto_full)
        /\ (\A f \in Flags : ~OcorreFrase(f, plano.contexto.texto_full))
               => \A f \in Flags : plano.contexto[f] = FALSE

\* an absent description: the flags come from the characteristics alone, and
\* an absent pair of texts gives a context with every flag false
C12_Witness ==
    /\ etapa = "planejada"
    /\ descricao = None
    /\ \/ caracteristicas = None /\ \A f \in Flags : plano.contexto[f] = FALSE
       \/ plano.contexto.tem_altura /\ ~plano.contexto.tem_chama

---------------------------------------------------------------------------
(* Properties of the EPI tab: comparison with the plan and dialog lookup *)

\* the observed items that differ from  x  by case or whitespace at most
IguaisNormalizados(x) ==
    {o \in ObservadosEPI : normalizar_texto_epi(o) = normalizar_texto_epi(x)}

\* C17: the difference between expected and observed items is taken on texts
\* normalized for case and whitespace: an expected item that differs from an
\* observed one only by case or whitespace is not reported missing, and the items
\* reported missing are expected items in their original spelling.
C17_DiferencaNormalizada ==
    epi_ultimo.coletou =>
        /\ \A x \in EsperadosEPI :
              IguaisNormalizados(x) # {} => x \notin epi_ultimo.resultado.faltantes
        /\ epi_ultimo.resultado.faltantes \subseteq EsperadosEPI

\* the dialog is opened for the category only when it has an item missing
ModalSoComFaltantes ==
    epi_ultimo.coletou =>
        ("abrir" \in epi_ultimo.acoes => epi_ultimo.resultado.faltantes # {})

\* C27: the association dialog is opened for a category only when the category
\* has at least one missing item, and a dialog that was opened has been closed,
\* by Confirmar or by Cancelar, when the processing of the category ends and
\* the next category is taken, whatever happened inside the dialog.
C27_ModalFechado ==
    /\ ModalSoComFaltantes
    /\ epi_ultimo.coletou =>
          /\ ~epi_ultimo.modal_aberto
          /\ epi_ultimo.procurados # {} =>
                epi_ultimo.acoes \cap {"confirmar", "cancelar"} # {}

\* the row label answers the lookup of item  x  by one of the three tiers: the
\* label is  x,  the label contains  x  whatever the case, or  x  is the
\* mandatory-EPI item and the label carries its phrase fragment
LinhaDoItem(rotulo, x) ==
    \/ normalize_space(rotulo) = x
    \/ Contains(lower(x), lower(rotulo))
    \/ /\ x = Chars(EPIS_OBRIGATORIOS)
       /\ Contains(Chars("EPI"), rotulo)
       /\ Contains(Chars("OBRIGATORIOS"), rotulo)

\* C18: the lookup of the missing items in the dialog ticks a row only for an
\* item that the row answers by one of the three tiers; for an item other than
\* the mandatory-EPI one that no row equals or contains, no row is ticked in its
\* place.
C18_SoLinhaDoItem ==
    epi_ultimo.coletou =>
        \A rotulo \in epi_ultimo.marcadas :
            \E x \in epi_ultimo.procurados : LinhaDoItem(rotulo, x)

---------------------------------------------------------------------------
(* Properties of the EPI adicional processor *)

\* the processed row  i  is a live question with another code than the plan
\* entry  e  and the same normalized text
TextoDeOutroCodigo(i, e) ==
    /\ epiad_respostas[i].ok
    /\ epiad_respostas[i].codigo # Chars(e[1])
    /\ normalizar_string(epiad_rows[i].pergunta) = normalizar_string(Chars(e[2]))

\* C20: a live question whose code differs from the code of a plan entry but
\* whose normalized text is the text of that entry receives the answer of that
\* entry, whatever the plan holds under the code of the question.
C20_RespostaPeloTexto ==
    \A i \in DOMAIN epiad_respostas : \A e \in DOMAIN epiad_plano :
        TextoDeOutroCodigo(i, e) =>
            normalizar_string(epiad_respostas[i].resposta) = normalizar_string(epiad_plano[e])

\* the words of a text: its maximal runs of word characters
Palavras(texto) ==
    { SubSeq(texto, p[1], p[2]) : p \in
        { q \in (1..Len(texto)) \X (1..Len(texto)) :
            /\ q[1] <= q[2]
            /\ \A k \in q[1]..q[2] : palavra_char(texto[k])
            /\ (q[1] = 1 \/ ~palavra_char(texto[q[1] - 1]))
            /\ (q[2] = Len(texto) \/ ~palavra_char(texto[q[2] + 1])) } }

\* C22: tem_corte is true only when CORTE is a word of the haystack, and tem_solda
\* only when SOLDA is one; on a haystack where SOLDA occurs only inside longer
\* words, or CORTE only inside OXICORTE, the word flag is false while tem_chama,
\* which looks for the substring, is true.
C22_PalavraInteira ==
    etapa = "planejada" =>
        LET ctx   == plano.contexto
            texto == plano.contexto.texto_full
        IN  /\ ctx.tem_corte => Chars("CORTE") \in Palavras(texto)
            /\ ctx.tem_solda => Chars("SOLDA") \in Palavras(texto)
            /\ (Contains(Chars("SOLDA"), texto) /\ Chars("SOLDA") \notin Palavras(texto))
                  => (~ctx.tem_solda /\ ctx.tem_chama)
            /\ (Contains(Chars("OXICORTE"), texto) /\ Chars("CORTE") \notin Palavras(texto))
                  => (~ctx.tem_corte /\ ctx.tem_chama)

\* SOLDA inside SOLDA_MIG and CORTE inside OXICORTE only
C22_Witness ==
    /\ etapa = "planejada"
    /\ descricao = Chars("solda_mig e oxicorte")
    /\ caracteristicas = <<>>
    /\ ~plano.contexto.tem_solda
    /\ ~plano.contexto.tem_corte
    /\ plano.contexto.tem_chama

\* C29: every context of the classifier satisfies: tem_solda implies tem_chama,
\* tem_oxicorte implies tem_chama, tem_acesso_cordas implies tem_altura, and
\* tem_lix_pneum implies tem_lixadeira and tem_pneumatico.
C29_Implicacoes ==
    etapa = "planejada" =>
        LET ctx == plano.contexto
        IN  /\ ctx.tem_solda => ctx.tem_chama
            /\ ctx.tem_oxicorte => ctx.tem_chama
            /\ ctx.tem_acesso_cordas => ctx.tem_altura
            /\ ctx.tem_lix_pneum => (ctx.tem_lixadeira /\ ctx.tem_pneumatico)

\* welding by rope access
C29_Witness ==
    /\ etapa = "planejada"
    /\ plano.contexto.tem_solda /\ plano.contexto.tem_chama
    /\ plano.contexto.tem_acesso_cordas /\ plano.contexto.tem_altura
    /\ ~plano.contexto.tem_oxicorte

---------------------------------------------------------------------------
(* Properties of the text normalization functions *)

\* C11: each normalization function is idempotent, normalize(normalize(s)) =
\* normalize(s) for every text s, and the empty or absent text gives the empty
\* text.
C11_Idempotencia ==
    /\ Len(norm_texto) = 2 => norm_texto[2] = norm_texto[1]
    /\ Len(norm_string) = 2 => norm_string[2] = norm_string[1]
    /\ norm_entrada \in {<<>>, None} =>
          /\ \A i \in DOMAIN norm_texto : norm_texto[i] = <<>>
          /\ \A i \in DOMAIN norm_string : norm_string[i] = <<>>

\* C19: normalizar_texto and normalizar_string return the same result for
\* every text.
C19_MesmoResultado ==
    (Len(norm_texto) >= 1 /\ Len(norm_string) >= 1) => norm_texto[1] = norm_string[1]

---------------------------------------------------------------------------
(* Properties of a run over several stages *)

\* the entries of the run about stage i, of one kind
EventosDe(i, ev) == SelectSeq(historico, LAMBDA e : e.idx = i /\ e.ev = ev)

\* the positions in historico of the entries about stage i, of one kind
PosicoesDe(i, ev) == {k \in 1..Len(historico) : historico[k].idx = i /\ historico[k].ev = ev}

\* processar_etapa has returned or was left for stage i
EtapaEncerrada(i) == i < run_idx \/ (i = run_idx /\ pcM \in {"laco", "finally", "fim"})

EtapasNaOrdem ==
    /\ run_idx <= Len(args_valor)
    /\ SelectSeq(historico, LAMBDA e : e.ev = "etapa")
          = [k \in 1..run_idx |-> Evento("etapa", k, args_valor[k], <<>>)]

\* without a successful login no stage is processed
SemLoginSemEtapa ==
    (\E k \in 1..Len(historico) : historico[k].ev = "login" /\ historico[k].nome # "ok")
        => run_idx = 0

\* when main is over the browser is closed
NavegadorFechadoNoFim == pcM = "fim" => navegador = "fechado"

\* main always comes to its end with the browser closed
NavegadorFechado == <>(pcM = "fim" /\ navegador = "fechado")

\* after a successful login every stage of the command line is processed
FalhaNaoImpedeSeguintes ==
    (pcM = "fim" /\ \E k \in 1..Len(historico) :
                        historico[k].ev = "login" /\ historico[k].nome = "ok")
        => run_idx = Len(args_valor)

\* C25: in a run over several stage numbers the stages are processed in the
\* order given; a failure while one stage is opened or filled does not keep the
\* later stages from being processed; when the login fails no stage is
\* processed; and in every case the browser is closed at the end.
C25_TodasAsEtapas ==
    /\ EtapasNaOrdem
    /\ SemLoginSemEtapa
    /\ NavegadorFechadoNoFim
    /\ FalhaNaoImpedeSeguintes

\* the work types of the runs whose normalized text lacks TRABALHO A QUENTE
TiposNaoQuentes ==
    {t \in TiposTrabalho : ~Contains(Chars("TRABALHO A QUENTE"), normalizar_texto(t))}

\* C26: for a stage whose work type does not read as 'Trabalho a Quente', or
\* that could not be opened, or whose data tab could not be reached, no plan is
\* generated, no form is filled and the footer confirmation is not attempted.
C26_EtapaIgnorada ==
    \A i \in 1..run_idx :
        LET falhou(ev) == \E k \in PosicoesDe(i, ev) : historico[k].nome # "ok"
            nao_quente == \E k \in PosicoesDe(i, "tipo") :
                              historico[k].texto \in TiposNaoQuentes
        IN  (falhou("abrir") \/ falhou("navegar") \/ nao_quente) =>
                /\ PosicoesDe(i, "plano") = {}
                /\ PosicoesDe(i, "formulario") = {}
                /\ PosicoesDe(i, "rodape") = {}
                /\ i = run_idx => pcM \in {"laco", "finally", "fim"}

\* the first stage is cold work and was passed over, the second is hot work and
\* was planned, filled and confirmed
C26_Witness ==
    /\ pcM = "fim"
    /\ run_idx = 2
    /\ \E k \in PosicoesDe(1, "tipo") : historico[k].texto = Chars("Trabalho a Frio")
    /\ PosicoesDe(1, "plano") = {}
    /\ PosicoesDe(2, "plano") # {}
    /\ PosicoesDe(2, "rodape") # {}

=============================================================================
